---- MODULE Spec2Model ----
(***************************************************************************)
(* Model of the reconciliation engine of the Home Assistant tray widget    *)
(* (hass_widget/tray.py, TrayIcon) together with the gateway client        *)
(* (hass_widget/ha_client.py), the metric helpers                          *)
(* (hass_widget/agent_metrics.py) and the settings dialog's Save path      *)
(* (hass_widget/settings.py).                                              *)
(*                                                                         *)
(* Strings the code takes apart (ids, labels) are sequences of tokens so   *)
(* that strip(), partition(".") and the slug derivation are computed.      *)
(* Every slot is one atomic step : the widget runs on Qt's single GUI      *)
(* thread and every gateway call is synchronous.                           *)
(***************************************************************************)
EXTENDS Integers, Sequences, FiniteSets, TLC

(***************************************************************************)
(* Bounds of the model.                                                    *)
(***************************************************************************)
MaxNotifs == 2
MaxPending == 1

(***************************************************************************)
(* Generic helpers.                                                        *)
(***************************************************************************)
BoundedSeq(S, n) == UNION {[1..k -> S] : k \in 0..n}

Range(s) == {s[i] : i \in 1..Len(s)}

Put(f, k, v) == [x \in (DOMAIN f) \cup {k} |-> IF x = k THEN v ELSE f[x]]

EmptyMap == [x \in {} |-> <<>>]

RECURSIVE LStrip(_, _)
LStrip(s, junk) ==
    IF s # <<>> /\ Head(s) \in junk THEN LStrip(Tail(s), junk) ELSE s

RECURSIVE RStrip(_, _)
RStrip(s, junk) ==
    IF s # <<>> /\ s[Len(s)] \in junk
    THEN RStrip(SubSeq(s, 1, Len(s) - 1), junk)
    ELSE s

\* str.strip(): leading and trailing white space removed.
Strip(s) == RStrip(LStrip(s, {" "}), {" "})

\* str.strip("_")
StripUnderscore(s) == RStrip(LStrip(s, {"_"}), {"_"})

(***************************************************************************)
(* agent_metrics.py                                                        *)
(***************************************************************************)
UpperChars == <<"A", "B", "C", "D", "E", "F", "G", "H", "I", "J", "K", "L", "M",
                "N", "O", "P", "Q", "R", "S", "T", "U", "V", "W", "X", "Y", "Z">>
LowerChars == <<"a", "b", "c", "d", "e", "f", "g", "h", "i", "j", "k", "l", "m",
                "n", "o", "p", "q", "r", "s", "t", "u", "v", "w", "x", "y", "z">>
Digits == {"0", "1", "2", "3", "4", "5", "6", "7", "8", "9"}

LowerChar(c) ==
    IF \E i \in 1..Len(UpperChars) : UpperChars[i] = c
    THEN LowerChars[CHOOSE i \in 1..Len(UpperChars) : UpperChars[i] = c]
    ELSE c

Lower(s) == [i \in 1..Len(s) |-> LowerChar(s[i])]

SlugChar(c) == c \in Range(LowerChars) \cup Digits

\* re.sub(r"[^a-z0-9]+", "_", name): every maximal run becomes one "_".
RECURSIVE CollapseRuns(_, _)
CollapseRuns(s, inRun) ==
    IF s = <<>> THEN <<>>
    ELSE IF SlugChar(Head(s)) THEN <<Head(s)>> \o CollapseRuns(Tail(s), FALSE)
    ELSE IF inRun THEN CollapseRuns(Tail(s), TRUE)
    ELSE <<"_">> \o CollapseRuns(Tail(s), TRUE)

\* An empty slug is returned as it is.
SlugOrNothing(slug, default) == slug

SlugOr(slug, default) == IF slug = <<>> THEN default ELSE slug

Slug(lowered) ==
    IF lowered = <<>> THEN <<>>
    ELSE SlugOr(StripUnderscore(CollapseRuns(lowered, FALSE)),
                <<"a", "g", "e", "n", "t">>)

slugify_agent_name(name) == Slug(Lower(Strip(name)))

\* The metric keys the model enables (two of AGENT_METRIC_OPTIONS).
MetricKeys == <<"disk_free_gb", "uptime_seconds">>

\* get_metric_option(key).label
MetricLabel(key) ==
    IF key = "disk_free_gb" THEN "Available disk space (GB)"
    ELSE "System uptime (seconds)"

get_metric_option(key) == key \in Range(MetricKeys)

(***************************************************************************)
(* The hub (Remote Gateway side) : what the REST calls can return.         *)
(***************************************************************************)
\* Raw notification_id values; <<" ">> strips to the empty id.
RawNotificationIds == {<<"n1">>, <<"n2">>, <<" ">>}

HubNotificationLists == BoundedSeq(RawNotificationIds, MaxNotifs)

\* Outcome of a call made with requests.get and no try/except around it:
\* "ok", "error" (status check raises HomeAssistantError), "raise" (requests
\* raises ConnectionError / Timeout, which is no HomeAssistantError).
CallOutcomes == {"ok", "error", "raise"}

\* Outcome of fetch_icon / fetch_entity_picture followed by icon_from_bytes:
\* "ok" (bytes decode), "bad" (bytes do not decode), "error"
\* (HomeAssistantError, RequestException included).
FetchOutcomes == {"ok", "bad", "error"}

E_light == [entity_id |-> <<"light", ".", "a">>, friendly_name |-> <<"Lamp">>,
            icon |-> <<"mdi:lamp">>, entity_picture |-> <<>>]
E_cam == [entity_id |-> <<"camera", ".", "c">>, friendly_name |-> <<>>,
          icon |-> <<"mdi:cctv">>, entity_picture |-> <<" ", "/pic">>]
E_zone == [entity_id |-> <<"zone", ".", "x">>, friendly_name |-> <<>>,
           icon |-> <<" ">>, entity_picture |-> <<>>]
E_noid == [entity_id |-> <<>>, friendly_name |-> <<"Ghost">>,
           icon |-> <<"mdi:lamp">>, entity_picture |-> <<>>]

HubStateLists == {<<>>, <<E_light>>, <<E_cam, E_light>>, <<E_noid, E_zone>>}

ResourceNames == {<<"mdi:lamp">>, <<"mdi:cctv">>, <<"/pic">>}

(***************************************************************************)
(* icons.py                                                                *)
(***************************************************************************)
DOMAIN_ICON_FILES ==
    [d \in {"automation", "binary_sensor", "button", "climate", "cover", "fan",
            "input_boolean", "light", "lock", "media_player", "scene", "script",
            "sensor", "switch"} |->
        CASE d \in {"automation", "script"} -> "entity-script.svg"
          [] d \in {"binary_sensor", "sensor"} -> "entity-sensor.svg"
          [] d = "button" -> "entity-button.svg"
          [] d = "climate" -> "entity-climate.svg"
          [] d = "cover" -> "entity-cover.svg"
          [] d = "fan" -> "entity-fan.svg"
          [] d \in {"input_boolean", "switch"} -> "entity-switch.svg"
          [] d = "light" -> "entity-light.svg"
          [] d = "lock" -> "entity-lock.svg"
          [] d = "media_player" -> "entity-media-player.svg"
          [] OTHER -> "entity-scene.svg"]

DEFAULT_ENTITY_ICON == "entity-generic.svg"

\* entity_id.partition(".")[0]
RECURSIVE PartitionDomain(_)
PartitionDomain(entity_id) ==
    IF entity_id = <<>> \/ Head(entity_id) = "." THEN <<>>
    ELSE <<Head(entity_id)>> \o PartitionDomain(Tail(entity_id))

IconFileOf(domain) ==
    IF Len(domain) = 1 /\ domain[1] \in DOMAIN DOMAIN_ICON_FILES
    THEN DOMAIN_ICON_FILES[domain[1]]
    ELSE DEFAULT_ENTITY_ICON

domain_icon_name(entity_id) == IconFileOf(PartitionDomain(entity_id))

\* A QIcon : null, or built from the bytes of a remote resource or from a
\* local resource file.  None is represented by the null icon.
NullIcon == [null |-> TRUE, src |-> <<"none", <<>>>>]
RemoteIcon(name) == [null |-> FALSE, src |-> <<"api", name>>]
load_domain_icon(entity_id) ==
    [null |-> FALSE, src |-> <<"file", <<domain_icon_name(entity_id)>>>>]

(***************************************************************************)
(* Configuration (the WidgetConfig fields TrayIcon reads).                 *)
(***************************************************************************)
MkConfig(url, token, ents, notif, agent, name, metrics, minutes) ==
    [base_url |-> url, api_token |-> token, entities |-> ents,
     receive_admin_notifications |-> notif, use_agent |-> agent,
     agent_name |-> name, agent_metrics |-> metrics,
     panel_refresh_minutes |-> minutes]

HasCredentials(cfg) == cfg.base_url # "" /\ cfg.api_token # ""

\* _apply_agent_settings (tray.py 256) : metric publishing is enabled.
PublishingEnabled(cfg) == cfg.use_agent /\ Strip(cfg.agent_name) # <<>>

Name_PC == <<"P", "C">>
Name_PCbang == <<"P", "C", "!">>
Name_blank == <<" ">>

\* QSpinBox.setRange(1, 1440) (settings.py 64) : the largest value of the
\* interval field of the dialog.
MaxPanelMinutes == 1440

\* The value of the interval field after setValue(v), and the value _save
\* reads from it (settings.py 64-67, 308).
SpinBoxValue(v) ==
    IF v < 1 THEN 1 ELSE IF v > MaxPanelMinutes THEN MaxPanelMinutes ELSE v

\* SettingsDialog._save (settings.py 301-335) : what a saved configuration
\* satisfies.  A configuration read from the file need not.
Saveable(cfg) ==
    /\ cfg.panel_refresh_minutes = SpinBoxValue(cfg.panel_refresh_minutes)
    /\ cfg.agent_name = Strip(cfg.agent_name)
    /\ cfg.use_agent => cfg.agent_name # <<>>
    /\ \A i, j \in 1..Len(cfg.agent_metrics) :
          cfg.agent_metrics[i] = cfg.agent_metrics[j] => i = j

EntityChoices == {<<>>, <<E_light.entity_id>>, <<E_zone.entity_id, E_light.entity_id>>}

(***************************************************************************)
(* The engine's state.  The operators below transform a record e of the    *)
(* TrayIcon fields; run is what the current slot has emitted so far        *)
(* (alerts, remote fetches, pushes).                                       *)
(***************************************************************************)
VARIABLES
    alive,                  \* the process runs (no exception left a slot)
    started,                \* TrayIcon.__init__ has run
    config,                 \* self._config
    known_notifications,    \* self._known_notifications
    icon_cache,             \* self._icon_cache
    entity_states,          \* self._entity_states
    agent_last_payloads,    \* self._agent_last_payloads
    notification_timer,     \* self._notification_timer.isActive()
    agent_timer,            \* self._agent_timer.isActive()
    panel_refresh_timer,    \* interval in minutes, 0 while not started
    pending,                \* queued QTimer.singleShot(0, ...) callbacks
    panel_view,             \* list last handed to EntitiesPanel.update_entities
    menu,                   \* the context menu's actions
    hubNotifications,       \* what /api/persistent_notification lists now
    hubStates,              \* what /api/states lists now
    metricSource,           \* what the metric collectors read now
    lastPoll,               \* the last _check_notifications run
    lastRefresh,            \* the last update_entities run
    lastPublish,            \* the last _publish_agent_metrics run
    fetchCount,             \* remote icon fetches per cache key since the
                            \* last configuration change
    notifHist,              \* per-id history of alerts and absences
    republish,              \* per-metric history since the last label change
    lastChange,             \* the last _on_configuration_changed run
    madeUnder,              \* the configurations under which the entries of
                            \* the icon cache and of the payload map were made
    stack,                  \* the slots and event loops in flight on the GUI
                            \* thread, the innermost last
    due,                    \* the jobs whose timer has timed out and whose
                            \* slot has not been called yet
    probe,                  \* the last call of a function of its arguments
                            \* alone : its name, its input and its result
    watch                   \* which of the histories above are recorded

vars == <<alive, started, config, known_notifications, icon_cache,
          entity_states, agent_last_payloads, notification_timer, agent_timer,
          panel_refresh_timer, pending, panel_view, menu, hubNotifications,
          hubStates, metricSource, lastPoll, lastRefresh, lastPublish,
          fetchCount, notifHist, republish, lastChange, madeUnder, stack, due,
          probe, watch>>

Engine ==
    [alive |-> alive, config |-> config, known |-> known_notifications,
     icon_cache |-> icon_cache, entity_states |-> entity_states,
     payloads |-> agent_last_payloads, ntimer |-> notification_timer,
     atimer |-> agent_timer, ptimer |-> panel_refresh_timer,
     pending |-> pending, view |-> panel_view, menu |-> menu,
     alerts |-> <<>>, fetches |-> <<>>, pushes |-> <<>>, published |-> FALSE,
     log |-> <<>>]

\* The slot did ev : a timer stopped or started, a structure cleared, a
\* callback queued, a refresh run.
Logged(e, ev) == [e EXCEPT !.log = Append(@, ev)]

\* A history is recorded only when it is watched.
Obs(tag, new, old) == IF tag \in watch THEN new ELSE old

(***************************************************************************)
(* tray.py : notifications                                                 *)
(***************************************************************************)
\* str(notification.get("notification_id", "")).strip()
notification_id(raw) == Strip(raw)

NotificationIds(notifs) ==
    {notification_id(notifs[i]) : i \in 1..Len(notifs)} \ {<<>>}

\* The loop takes every listed id as known and surfaces none.
ScanNotificationsSilent(notifs, kn, cur, al) ==
    [known |-> kn \cup NotificationIds(notifs),
     current_ids |-> NotificationIds(notifs), alerts |-> al]

\* _check_notifications, lines 237-248 : the loop over the poll result.
RECURSIVE ScanNotifications(_, _, _, _)
ScanNotifications(notifs, kn, cur, al) ==
    IF notifs = <<>> THEN [known |-> kn, current_ids |-> cur, alerts |-> al]
    ELSE LET id == notification_id(Head(notifs))
         IN  IF id = <<>> THEN ScanNotifications(Tail(notifs), kn, cur, al)
             ELSE IF id \in kn
             THEN ScanNotifications(Tail(notifs), kn, cur \cup {id}, al)
             ELSE ScanNotifications(Tail(notifs), kn \cup {id}, cur \cup {id},
                                    Append(al, id))

\* The Known set is cleared, whatever the poll listed.
PruneKnownClears(kn, current_ids) == {}

\* The Known set is never pruned.
PruneKnownKeepsAll(kn, current_ids) == kn

\* _check_notifications, lines 250-253.
PruneKnown(kn, current_ids) ==
    IF current_ids # {} THEN kn \cap current_ids ELSE {}

\* A failed poll forgets what was known.
PollFailedClears(e, outcome) ==
    [e EXCEPT !.known = {}, !.alive = outcome # "raise"]

\* _check_notifications, lines 231-235 : what a failed list_notifications
\* leaves behind.  "error" is caught; "raise" leaves the slot.
PollFailed(e, outcome) ==
    IF outcome = "raise" THEN [e EXCEPT !.alive = FALSE] ELSE e

\* The engine after the loop returned r.
Polled(e, r) ==
    [e EXCEPT !.known = PruneKnown(r.known, r.current_ids),
              !.alerts = e.alerts \o r.alerts]

\* The poll runs whether or not the URL and the token are set.
CheckNotificationsWithoutCredentials(e, outcome, notifs) ==
    IF ~e.config.receive_admin_notifications THEN e
    ELSE IF outcome # "ok" THEN PollFailed(e, outcome)
    ELSE Polled(e, ScanNotifications(notifs, e.known, {}, <<>>))

check_notifications(e, outcome, notifs) ==
    IF \/ ~e.config.receive_admin_notifications
       \/ ~HasCredentials(e.config)
    THEN e
    ELSE IF outcome # "ok" THEN PollFailed(e, outcome)
    ELSE Polled(e, ScanNotifications(notifs, e.known, {}, <<>>))

\* _initialize_notifications without the clear of line 200.
InitializeKeepsKnown(e, outcome, notifs) ==
    IF ~HasCredentials(e.config) \/ outcome # "ok" THEN e
    ELSE [e EXCEPT !.known = @ \cup NotificationIds(notifs)]

initialize_notifications(e, outcome, notifs) ==
    IF ~HasCredentials(e.config) THEN [e EXCEPT !.known = {}]
    ELSE IF outcome = "raise" THEN [e EXCEPT !.known = {}, !.alive = FALSE]
    ELSE IF outcome = "error" THEN [e EXCEPT !.known = {}]
    ELSE [e EXCEPT !.known = NotificationIds(notifs)]

\* Line 222 : the poll queued behind the seeding, unless that raised.
QueueCheck(e) ==
    IF e.alive THEN Logged([e EXCEPT !.pending.check = @ + 1], "queue_check")
    ELSE e

\* Lines 219-220 : a timer that is active is left alone.
StartNotificationTimer(e) ==
    IF e.ntimer THEN e
    ELSE Logged([e EXCEPT !.ntimer = TRUE], "start_notification")

apply_notification_preference(e, outcome, notifs) ==
    IF ~e.config.receive_admin_notifications
    THEN Logged([e EXCEPT !.ntimer = FALSE, !.known = {}], "stop_notification")
    ELSE QueueCheck(initialize_notifications(StartNotificationTimer(e),
                                             outcome, notifs))

(***************************************************************************)
(* tray.py : icon resolution.  c is [cache, fetches]; every operator       *)
(* returns [c, icon].                                                      *)
(***************************************************************************)
ApiKey(base_url, name) == <<"api", base_url, name>>
ResourceKeyOf(domain, entity_id) ==
    <<"resource", "", IF domain # <<>> THEN domain ELSE entity_id>>

ResourceKey(entity_id) == ResourceKeyOf(PartitionDomain(entity_id), entity_id)

\* The icon the loader of _cached_icon produces.
LoadedIcon(name, outcome) ==
    IF outcome = "ok" THEN RemoteIcon(name) ELSE NullIcon

\* Only a usable cached icon counts as a hit.
CacheHitUsable(cache, key) == key \in DOMAIN cache /\ ~cache[key].null

\* _cached_icon, lines 342-344 : is the cached value used.
CacheHit(cache, key) == key \in DOMAIN cache

\* After a failed fetch the run fetches nothing more.
CachedIconAborts(c, key, name, outcome) ==
    IF CacheHit(c.cache, key)
    THEN [c |-> c, icon |-> c.cache[key]]
    ELSE IF \E i \in 1..Len(c.fetches) : c.cache[c.fetches[i]].null
    THEN [c |-> c, icon |-> NullIcon]
    ELSE [c |-> [cache |-> Put(c.cache, key, LoadedIcon(name, outcome)),
                 fetches |-> Append(c.fetches, key)],
          icon |-> LoadedIcon(name, outcome)]

\* A failed fetch is not remembered.
CachedIconForgetsFailure(c, key, name, outcome) ==
    IF CacheHit(c.cache, key)
    THEN [c |-> c, icon |-> c.cache[key]]
    ELSE [c |-> [cache |-> IF outcome = "ok"
                           THEN Put(c.cache, key, LoadedIcon(name, outcome))
                           ELSE c.cache,
                 fetches |-> Append(c.fetches, key)],
          icon |-> LoadedIcon(name, outcome)]

_cached_icon(c, key, name, outcome) ==
    IF CacheHit(c.cache, key)
    THEN [c |-> c, icon |-> c.cache[key]]
    ELSE [c |-> [cache |-> Put(c.cache, key, LoadedIcon(name, outcome)),
                 fetches |-> Append(c.fetches, key)],
          icon |-> LoadedIcon(name, outcome)]

\* The icon name is fetched when the picture gave no icon.
ApiIconTriesBoth(c, base_url, entity_picture, icon_name, oIcons) ==
    IF entity_picture # <<>>
         /\ ~(/\ icon_name # <<>>
              /\ _cached_icon(c, ApiKey(base_url, entity_picture),
                              entity_picture, oIcons[entity_picture]).icon.null)
    THEN _cached_icon(c, ApiKey(base_url, entity_picture), entity_picture,
                      oIcons[entity_picture])
    ELSE IF icon_name # <<>>
    THEN _cached_icon(IF entity_picture # <<>>
                      THEN _cached_icon(c, ApiKey(base_url, entity_picture),
                                        entity_picture,
                                        oIcons[entity_picture]).c
                      ELSE c,
                      ApiKey(base_url, icon_name), icon_name, oIcons[icon_name])
    ELSE [c |-> c, icon |-> NullIcon]

\* Lines 315-326, with the stripped attributes of the entity's state.
ApiIcon(c, base_url, entity_picture, icon_name, oIcons) ==
    IF entity_picture # <<>>
    THEN _cached_icon(c, ApiKey(base_url, entity_picture), entity_picture,
                      oIcons[entity_picture])
    ELSE IF icon_name # <<>>
    THEN _cached_icon(c, ApiKey(base_url, icon_name), icon_name,
                      oIcons[icon_name])
    ELSE [c |-> c, icon |-> NullIcon]

\* An id without a state is given the lamp's icon of the hub.
UnknownEntityIconFetched(c, states, base_url, entity_id, oIcons) ==
    IF entity_id \notin DOMAIN states
    THEN _cached_icon(c, ApiKey(base_url, <<"mdi:lamp">>), <<"mdi:lamp">>,
                      oIcons[<<"mdi:lamp">>])
    ELSE ApiIcon(c, base_url, Strip(states[entity_id].entity_picture),
                 Strip(states[entity_id].icon), oIcons)

_entity_icon_from_api(c, states, base_url, entity_id, oIcons) ==
    IF entity_id \notin DOMAIN states THEN [c |-> c, icon |-> NullIcon]
    ELSE ApiIcon(c, base_url, Strip(states[entity_id].entity_picture),
                 Strip(states[entity_id].icon), oIcons)

\* Lines 331-337, with the cache key of the entity's domain.
ResourceIcon(c, key, entity_id) ==
    IF key \in DOMAIN c.cache
    THEN [c |-> c, icon |-> c.cache[key]]
    ELSE [c |-> [c EXCEPT !.cache = Put(c.cache, key, load_domain_icon(entity_id))],
          icon |-> load_domain_icon(entity_id)]

_entity_icon_from_resources(c, entity_id) ==
    ResourceIcon(c, ResourceKey(entity_id), entity_id)

\* Lines 301-303 : the local resource when the hub gave no icon.
OrResource(api, entity_id) ==
    IF api.icon.null THEN _entity_icon_from_resources(api.c, entity_id) ELSE api

_entity_icon(c, states, base_url, entity_id, client, oIcons) ==
    OrResource(IF client
               THEN _entity_icon_from_api(c, states, base_url, entity_id, oIcons)
               ELSE [c |-> c, icon |-> NullIcon],
               entity_id)

(***************************************************************************)
(* tray.py : update_entities                                               *)
(***************************************************************************)
\* Lines 84-94 : entity_map / state_map keep the first position and the
\* last value of an id, and skip states without entity_id.
\* An id met again is listed again.
AppendEach(rest, id) == IF id = <<>> THEN rest ELSE Append(rest, id)

AppendNew(rest, id) ==
    IF id = <<>> \/ id \in Range(rest) THEN rest ELSE Append(rest, id)

RECURSIVE EntityIdsOf(_)
EntityIdsOf(states) ==
    IF states = <<>> THEN <<>>
    ELSE AppendNew(EntityIdsOf(SubSeq(states, 1, Len(states) - 1)),
                   states[Len(states)].entity_id)

StateMap(states) ==
    [id \in Range(EntityIdsOf(states)) |->
        states[CHOOSE i \in 1..Len(states) :
                  /\ states[i].entity_id = id
                  /\ \A j \in (i + 1)..Len(states) : states[j].entity_id # id]]

FriendlyName(state_map, id) ==
    IF id \in DOMAIN state_map /\ state_map[id].friendly_name # <<>>
    THEN state_map[id].friendly_name
    ELSE id

PanelEntity(id, name, icon) ==
    [entity_id |-> id, friendly_name |-> name, icon |-> icon]

\* Lines 96-105 (hub = TRUE) and 110-120 (hub = FALSE) : one panel entity
\* per id.  a is [c, icon_map, panel].
PanelStep(a, id, r, entity_map) ==
    [c |-> r.c,
     icon_map |-> IF id \in DOMAIN a.icon_map THEN a.icon_map
                  ELSE Put(a.icon_map, id, r.icon),
     panel |-> Append(a.panel,
                      PanelEntity(id, FriendlyName(entity_map, id), r.icon))]

RECURSIVE PanelLoop(_, _, _, _, _, _, _)
PanelLoop(ids, a, states, entity_map, base_url, client, oIcons) ==
    IF ids = <<>> THEN a
    ELSE PanelLoop(Tail(ids),
                   PanelStep(a, Head(ids),
                             _entity_icon(a.c, states, base_url, Head(ids),
                                          client, oIcons),
                             entity_map),
                   states, entity_map, base_url, client, oIcons)

\* Lines 123-134 : one menu action per configured entity.  a is [c, actions].
MenuStep(a, id, r, entity_map) ==
    [c |-> r.c,
     actions |-> Append(a.actions,
                        [kind |-> "entity", entity_id |-> id,
                         text |-> FriendlyName(entity_map, id), icon |-> r.icon])]

RECURSIVE MenuLoop(_, _, _, _, _, _, _, _)
MenuLoop(ids, a, icon_map, states, entity_map, base_url, client, oIcons) ==
    IF ids = <<>> THEN a
    ELSE MenuLoop(Tail(ids),
                  MenuStep(a, Head(ids),
                           IF Head(ids) \in DOMAIN icon_map
                           THEN [c |-> a.c, icon |-> icon_map[Head(ids)]]
                           ELSE _entity_icon(a.c, states, base_url, Head(ids),
                                             client, oIcons),
                           entity_map),
                  icon_map, states, entity_map, base_url, client, oIcons)

SettingsAction == [kind |-> "settings", entity_id |-> <<>>,
                   text |-> <<"Settings">>, icon |-> NullIcon]
QuitAction == [kind |-> "quit", entity_id |-> <<>>, text |-> <<"Quit">>,
               icon |-> NullIcon]
Separator == [kind |-> "separator", entity_id |-> <<>>, text |-> <<>>,
              icon |-> NullIcon]
Placeholder == [kind |-> "placeholder", entity_id |-> <<>>,
                text |-> <<"No entities configured">>, icon |-> NullIcon]

\* Lines 68-70, then the insertions before the Settings action.
IsFixedAction(x) == x.kind \in {"settings", "quit"}

InsertBefore(kept, i, inserted) ==
    SubSeq(kept, 1, i - 1) \o inserted \o <<Separator>> \o SubSeq(kept, i, Len(kept))

InsertBeforeSettings(kept, inserted) ==
    InsertBefore(kept, CHOOSE k \in 1..Len(kept) : kept[k].kind = "settings",
                 inserted)

RebuildMenu(old, inserted) ==
    InsertBeforeSettings(SelectSeq(old, IsFixedAction), inserted)

\* The configured entities are never listed.
NeedsFallbackNever(panel, entities) == FALSE

\* Line 109 : the configured entities are listed when the hub gave none.
NeedsFallback(panel, entities) == panel = <<>> /\ entities # <<>>

\* Lines 76-107 : the states the run works with after list_entity_states.
\* A HomeAssistantError empties _entity_states and drops the client.
FetchedStates(e, outcome, states) ==
    IF HasCredentials(e.config) /\ outcome = "ok"
    THEN [client |-> TRUE, listed |-> EntityIdsOf(states),
          state_map |-> StateMap(states)]
    ELSE [client |-> FALSE, listed |-> <<>>, state_map |-> EmptyMap]

\* Lines 122-142 : the menu and the panel are rebuilt.
Published(e, f, a, m) ==
    [e EXCEPT !.entity_states = f.state_map,
              !.icon_cache = m.c.cache,
              !.fetches = m.c.fetches,
              !.menu = RebuildMenu(e.menu, m.actions),
              !.view = a.panel,
              !.published = TRUE,
              !.log = Append(@, "refresh")]

WithMenu(e, f, a, oIcons) ==
    Published(e, f, a,
              IF e.config.entities # <<>>
              THEN MenuLoop(e.config.entities, [c |-> a.c, actions |-> <<>>],
                            a.icon_map, f.state_map, f.state_map,
                            e.config.base_url, f.client, oIcons)
              ELSE [c |-> a.c, actions |-> <<Placeholder>>])

WithFallback(e, f, a, oIcons) ==
    WithMenu(e, f,
             IF NeedsFallback(a.panel, e.config.entities)
             THEN PanelLoop(e.config.entities, a, f.state_map, f.state_map,
                            e.config.base_url, f.client, oIcons)
             ELSE a,
             oIcons)

WithStates(e, f, oIcons) ==
    WithFallback(e, f,
                 PanelLoop(f.listed,
                           [c |-> [cache |-> e.icon_cache, fetches |-> e.fetches],
                            icon_map |-> EmptyMap, panel |-> <<>>],
                           f.state_map, f.state_map, e.config.base_url,
                           f.client, oIcons),
                 oIcons)

update_entities(e, outcome, states, oIcons) ==
    IF HasCredentials(e.config) /\ outcome = "raise"
    THEN [e EXCEPT !.alive = FALSE, !.menu = SelectSeq(e.menu, IsFixedAction),
                   !.log = Append(@, "refresh")]
    ELSE WithStates(e, FetchedStates(e, outcome, states), oIcons)

(***************************************************************************)
(* agent_metrics.py : collect_metrics, and tray.py : metric publishing     *)
(***************************************************************************)
MetricTags == {"none", "v1", "v2"}

Attr(k, v) == <<k, <<v>>>>

\* What the collector of a key returns when its source reads tag.
MetricValue(key, tag) ==
    IF key = "disk_free_gb"
    THEN [state |-> <<IF tag = "v1" THEN "10.5" ELSE "11.0">>,
          attributes |-> <<Attr("unit_of_measurement", "GB"),
                           Attr("icon", "mdi:harddisk")>>]
    ELSE [state |-> <<IF tag = "v1" THEN "100" ELSE "160">>,
          attributes |-> <<Attr("unit_of_measurement", "s"),
                           Attr("device_class", "duration"),
                           Attr("icon", "mdi:timer-outline")>>]

\* collect_metrics : the selected keys that could be computed, in order.
Collect(rest, key, source) ==
    IF key \notin DOMAIN source \/ source[key] = "none" \/ key \in Range(rest)
    THEN rest
    ELSE Append(rest, key)

RECURSIVE collect_metrics(_, _)
collect_metrics(selected, source) ==
    IF selected = <<>> THEN <<>>
    ELSE Collect(collect_metrics(SubSeq(selected, 1, Len(selected) - 1), source),
                 selected[Len(selected)], source)

\* String order of the attribute keys in use.
AttrKeyOrder == <<"device_class", "friendly_name", "icon", "source",
                  "unit_of_measurement">>
KeyRank(k) == CHOOSE i \in 1..Len(AttrKeyOrder) : AttrKeyOrder[i] = k

HasAttr(attrs, k) == \E i \in 1..Len(attrs) : attrs[i][1] = k

\* dict.setdefault
SetDefault(attrs, k, v) == IF HasAttr(attrs, k) THEN attrs ELSE Append(attrs, <<k, v>>)

RECURSIVE InsertSorted(_, _)
InsertSorted(sorted, pair) ==
    IF sorted = <<>> THEN <<pair>>
    ELSE IF KeyRank(pair[1]) < KeyRank(Head(sorted)[1])
    THEN <<pair>> \o sorted
    ELSE <<Head(sorted)>> \o InsertSorted(Tail(sorted), pair)

\* The items in the order of insertion.
UnsortedItems(attrs) == attrs

\* tuple(sorted(attributes.items()))
RECURSIVE SortedItems(_)
SortedItems(attrs) ==
    IF attrs = <<>> THEN <<>>
    ELSE InsertSorted(SortedItems(Tail(attrs)), Head(attrs))

\* Lines 282-288.
SensorEntityId(slug, key) == <<"sensor.">> \o slug \o <<"_", key>>

PublishAttributes(agent_name, key, metric) ==
    SetDefault(IF get_metric_option(key)
               THEN SetDefault(metric.attributes, "friendly_name",
                               agent_name \o <<" ", MetricLabel(key)>>)
               ELSE metric.attributes,
               "source", <<"Home Assistant Widget">>)

payload_signature(state, attributes) == <<state, SortedItems(attributes)>>

\* Every metric is pushed, whatever is stored.
PayloadUnchangedNever(payloads, entity_id, signature) == FALSE

\* Line 289 : the stored signature equals the fresh one.
PayloadUnchanged(payloads, entity_id, signature) ==
    entity_id \in DOMAIN payloads /\ payloads[entity_id] = signature

\* The signature is stored although the push failed.
RecordPushAlways(payloads, entity_id, signature, ok) ==
    Put(payloads, entity_id, signature)

\* The signature is not stored.
RecordPushNever(payloads, entity_id, signature, ok) == payloads

\* Lines 291-295 : the map after set_state returned (ok) or raised
\* HomeAssistantError.
RecordPush(payloads, entity_id, signature, ok) ==
    IF ok THEN Put(payloads, entity_id, signature) ELSE payloads

\* Lines 289-295 for one metric.  a is [payloads, pushes].
PublishStep(a, key, entity_id, signature, ok) ==
    IF PayloadUnchanged(a.payloads, entity_id, signature)
    THEN a
    ELSE [payloads |-> RecordPush(a.payloads, entity_id, signature, ok),
          pushes |-> Append(a.pushes,
                            [entity_id |-> entity_id, key |-> key,
                             signature |-> signature, ok |-> ok])]

MetricSignature(agent_name, key, metric) ==
    payload_signature(metric.state, PublishAttributes(agent_name, key, metric))

\* Lines 281-295.
RECURSIVE PublishLoop(_, _, _, _, _, _)
PublishLoop(keys, a, agent_name, slug, source, oPush) ==
    IF keys = <<>> THEN a
    ELSE PublishLoop(Tail(keys),
                     PublishStep(a, Head(keys), SensorEntityId(slug, Head(keys)),
                                 MetricSignature(agent_name, Head(keys),
                                                 MetricValue(Head(keys),
                                                             source[Head(keys)])),
                                 oPush[Head(keys)] = "ok"),
                     agent_name, slug, source, oPush)

\* Lines 265-279 : does the run reach the loop.
PublishRuns(cfg, source) ==
    /\ cfg.use_agent
    /\ Strip(cfg.agent_name) # <<>>
    /\ collect_metrics(cfg.agent_metrics, source) # <<>>
    /\ slugify_agent_name(Strip(cfg.agent_name)) # <<>>
    /\ HasCredentials(cfg)

PublishedAll(e, a) == [e EXCEPT !.payloads = a.payloads, !.pushes = a.pushes]

\* A run that does not reach the loop empties the map.
PublishForgetsWhenIdle(e, source, oPush) ==
    IF ~PublishRuns(e.config, source) THEN [e EXCEPT !.payloads = EmptyMap]
    ELSE PublishedAll(e,
             PublishLoop(collect_metrics(e.config.agent_metrics, source),
                         [payloads |-> e.payloads, pushes |-> e.pushes],
                         Strip(e.config.agent_name),
                         slugify_agent_name(Strip(e.config.agent_name)),
                         source, oPush))

publish_agent_metrics(e, source, oPush) ==
    IF ~PublishRuns(e.config, source) THEN e
    ELSE PublishedAll(e,
             PublishLoop(collect_metrics(e.config.agent_metrics, source),
                         [payloads |-> e.payloads, pushes |-> e.pushes],
                         Strip(e.config.agent_name),
                         slugify_agent_name(Strip(e.config.agent_name)),
                         source, oPush))

\* Lines 257-258 : a timer that is active is left alone.
StartAgentTimer(e) ==
    IF e.atimer THEN e ELSE Logged([e EXCEPT !.atimer = TRUE], "start_agent")

QueuePublish(e) == Logged([e EXCEPT !.pending.publish = @ + 1], "queue_publish")

\* The map is emptied and the timer goes on.
StopAgentLeavesTimer(e) == Logged([e EXCEPT !.payloads = EmptyMap], "clear_map")

StopAgent(e) ==
    Logged(Logged([e EXCEPT !.atimer = FALSE, !.payloads = EmptyMap],
                  "stop_agent"),
           "clear_map")

apply_agent_settings(e) ==
    IF e.config.use_agent /\ Strip(e.config.agent_name) # <<>>
    THEN QueuePublish(StartAgentTimer(e))
    ELSE StopAgent(e)

(***************************************************************************)
(* tray.py : configuration                                                 *)
(***************************************************************************)
\* _apply_panel_refresh_interval : max(1, int(minutes or 5)); the timer is
\* stopped and started with that interval.
PanelRefreshMinutes(cfg) ==
    IF cfg.panel_refresh_minutes = 0 THEN 5
    ELSE IF cfg.panel_refresh_minutes < 1 THEN 1
    ELSE cfg.panel_refresh_minutes

apply_panel_refresh_interval(e) ==
    Logged(Logged([e EXCEPT !.ptimer = PanelRefreshMinutes(e.config)],
                  "stop_panel"),
           "start_panel")

\* A step of a slot runs unless an exception already left the slot.
ThenAgent(e) == IF e.alive THEN apply_agent_settings(e) ELSE e

ThenNotifications(e, outcome, notifs) ==
    IF e.alive
    THEN ThenAgent(apply_notification_preference(e, outcome, notifs))
    ELSE e

ThenInterval(e) == IF e.alive THEN apply_panel_refresh_interval(e) ELSE e

\* Lines 154-155 : both structures were cleared.
Cleared(e) == Logged(Logged(e, "clear_cache"), "clear_map")

\* The handler leaves the Last-Published-Value Map as it is.
ConfigurationChangedKeepsMap(e, cfg, g, states, notifs) ==
    ThenNotifications(
        update_entities(
            apply_panel_refresh_interval(
                Cleared([e EXCEPT !.config = cfg, !.icon_cache = EmptyMap])),
            g.states, states, g.icons),
        g.seed, notifs)

\* g holds the outcomes of the gateway calls the slot makes:
\* g.states, g.icons, g.seed.
on_configuration_changed(e, cfg, g, states, notifs) ==
    ThenNotifications(
        update_entities(
            apply_panel_refresh_interval(
                Cleared([e EXCEPT !.config = cfg, !.icon_cache = EmptyMap,
                                  !.payloads = EmptyMap])),
            g.states, states, g.icons),
        g.seed, notifs)

\* TrayIcon.__init__, lines 58-61.
tray_icon_init(e, g, states, notifs) ==
    ThenNotifications(
        ThenInterval(update_entities(e, g.states, states, g.icons)),
        g.seed, notifs)

(***************************************************************************)
(* Observation of the runs (history : read by the properties only).        *)
(***************************************************************************)
GatewayOutcomes ==
    [states : CallOutcomes, icons : [ResourceNames -> FetchOutcomes],
     seed : CallOutcomes]

PushOutcomes == [Range(MetricKeys) -> {"ok", "error"}]

Bump(n) == IF n < 2 THEN n + 1 ELSE n

Counted(fc, k) == Put(fc, k, IF k \in DOMAIN fc THEN Bump(fc[k]) ELSE 1)

RECURSIVE CountFetches(_, _)
CountFetches(fc, fetches) ==
    IF fetches = <<>> THEN fc
    ELSE CountFetches(Counted(fc, Head(fetches)), Tail(fetches))

\* What a run keeps of the run before it.
NoPrevious ==
    [outcome |-> "none", states |-> <<>>, base_url |-> "", entities |-> <<>>]

PreviousRun(r) ==
    [outcome |-> r.outcome, states |-> r.states, base_url |-> r.base_url,
     entities |-> r.entities]

NoRefresh ==
    [trigger |-> "none", outcome |-> "none", viewBefore |-> <<>>,
     cacheBefore |-> EmptyMap, entities |-> <<>>, published |-> FALSE,
     fetches |-> <<>>, base_url |-> "", states |-> <<>>,
     previous |-> NoPrevious]

\* e0 : the engine when update_entities started, e1 : when the slot ended,
\* states : what the hub listed (recorded under "icons"); the run before is
\* recorded under "twice".
RefreshRecord(trigger, e0, e1, outcome, states) ==
    [trigger |-> trigger,
     outcome |-> IF HasCredentials(e0.config) THEN outcome ELSE "nocreds",
     viewBefore |-> e0.view, cacheBefore |-> e0.icon_cache,
     entities |-> e0.config.entities, published |-> e1.published,
     fetches |-> e1.fetches, base_url |-> e0.config.base_url,
     states |-> Obs("icons", states, <<>>),
     previous |-> Obs("twice", PreviousRun(lastRefresh), NoPrevious)]

NoPoll == [outcome |-> "none", creds |-> FALSE, K |-> {}, N |-> {},
           alerts |-> <<>>, after |-> {}]

PollRan(cfg) == cfg.receive_admin_notifications /\ HasCredentials(cfg)

PollRecord(e0, e1, outcome, notifs) ==
    [outcome |-> IF PollRan(e0.config) THEN outcome ELSE "skipped",
     creds |-> HasCredentials(e0.config),
     K |-> e0.known,
     N |-> IF PollRan(e0.config) /\ outcome = "ok"
           THEN NotificationIds(notifs) ELSE {},
     alerts |-> e1.alerts, after |-> e1.known]

NoNotifHist == [everSurfaced |-> {}, pruned |-> {}, prunedSeed |-> {},
                missed |-> {}, missedSeed |-> {}, resurfaced |-> {},
                seedOwed |-> {}, owedAlerted |-> {}, seeded |-> FALSE,
                fresh |-> {}, freshSince |-> {}, freshAlerted |-> {},
                swallowed |-> {}, swallowedSince |-> {},
                live |-> {}, duplicated |-> {}]

\* After a successful poll that listed N and surfaced al.
PolledHist(h, N, al) ==
    [h EXCEPT !.everSurfaced = @ \cup al,
              !.pruned = (@ \cup (h.everSurfaced \ N)) \ al,
              !.prunedSeed = (@ \cup (h.everSurfaced \ N)) \ al,
              !.missed = @ \cup ((h.pruned \cap N) \ al),
              !.missedSeed = @ \cup ((h.prunedSeed \cap N) \ al),
              !.resurfaced = @ \cup (h.prunedSeed \cap al),
              !.owedAlerted = @ \cup (h.seedOwed \cap al),
              !.fresh = @ \ N,
              !.freshSince = @ \ N,
              !.freshAlerted = @ \cup (h.freshSince \cap al),
              !.swallowed = @ \cup ((h.fresh \cap N) \ al),
              !.swallowedSince = @ \cup ((h.freshSince \cap N) \ al),
              !.live = (@ \cap N) \cup al,
              !.duplicated = @ \cup (h.live \cap al)]

PollHist(h, rec) ==
    IF rec.outcome = "ok" THEN PolledHist(h, rec.N, Range(rec.alerts)) ELSE h

\* After _apply_notification_preference ran : was, now : the preference
\* before and after.  fresh : the ids that appeared at the hub since the
\* Known set was first seeded, with the preference enabled ever since, and
\* that no successful poll has listed yet; freshSince : those of them that
\* appeared after the last configuration change; live : the ids that were
\* surfaced and that every successful poll since has listed, with the
\* preference enabled ever since; duplicated : those surfaced while live.
AppliedHist(h, was, now, notifs) ==
    [h EXCEPT !.prunedSeed = {},
              !.seedOwed = IF ~now THEN {}
                           ELSE IF ~was THEN NotificationIds(notifs)
                           ELSE @,
              !.seeded = now,
              !.fresh = IF was /\ now THEN @ ELSE {},
              !.freshSince = {},
              !.live = IF was /\ now THEN @ ELSE {}]

\* The hub lists l after old; kn is the Known set, counted : the Known set
\* was seeded and the preference is enabled.
AppearedHist(h, old, l, kn, counted) ==
    [h EXCEPT !.seedOwed = @ \cap NotificationIds(l),
              !.fresh = (@ \cap NotificationIds(l))
                           \cup (IF counted
                                 THEN NotificationIds(l)
                                         \ (NotificationIds(old) \cup kn)
                                 ELSE {}),
              !.freshSince = (@ \cap NotificationIds(l))
                                \cup (IF counted
                                      THEN NotificationIds(l)
                                              \ (NotificationIds(old) \cup kn)
                                      ELSE {})]

\* A rejected save left cfg : a disabled preference has not stayed enabled.
RejectedHist(h, cfg) ==
    IF cfg.receive_admin_notifications THEN h
    ELSE [h EXCEPT !.fresh = {}, !.freshSince = {}, !.live = {}]

NoTrack == [val |-> "none", ok |-> 0, skipped |-> FALSE, kept |-> FALSE]

NoRepublish ==
    [pushedSince |-> EmptyMap,
     lastVal |-> [k \in Range(MetricKeys) |-> "none"],
     track |-> [k \in Range(MetricKeys) |-> NoTrack],
     trackAll |-> [k \in Range(MetricKeys) |-> NoTrack]]

NoPublish == [outcome |-> "none", creds |-> FALSE, before |-> EmptyMap,
              prior |-> EmptyMap, collected |-> <<>>, pushes |-> <<>>]

CollectedOf(keys, agent_name, source) ==
    [i \in 1..Len(keys) |->
        [key |-> keys[i],
         entity_id |-> SensorEntityId(slugify_agent_name(agent_name), keys[i]),
         signature |-> MetricSignature(agent_name, keys[i],
                                       MetricValue(keys[i], source[keys[i]]))]]

Collected(cfg, source) ==
    CollectedOf(collect_metrics(cfg.agent_metrics, source),
                Strip(cfg.agent_name), source)

PublishRecord(e0, e1, source, prior) ==
    IF PublishRuns(e0.config, source)
    THEN [outcome |-> "ran", creds |-> TRUE, before |-> e0.payloads,
          prior |-> prior, collected |-> Collected(e0.config, source),
          pushes |-> e1.pushes]
    ELSE [NoPublish EXCEPT !.outcome = "skipped",
                           !.creds = HasCredentials(e0.config),
                           !.before = e0.payloads, !.pushes = e1.pushes]

Pushed(pushes, key) == \E i \in 1..Len(pushes) : pushes[i].key = key
PushedOk(pushes, key) ==
    \E i \in 1..Len(pushes) : pushes[i].key = key /\ pushes[i].ok

RECURSIVE PushedSince(_, _)
PushedSince(m, pushes) ==
    IF pushes = <<>> THEN m
    ELSE PushedSince(IF Head(pushes).ok
                     THEN Put(m, Head(pushes).entity_id, Head(pushes).signature)
                     ELSE m,
                     Tail(pushes))

\* A tracked metric after a run that collected keys and made pushes.
Tracked(t, key, keys, source, pushes) ==
    IF t.val = "none" \/ key \notin Range(keys) THEN t
    ELSE IF source[key] # t.val THEN NoTrack
    ELSE [t EXCEPT !.ok = IF PushedOk(pushes, key) THEN Bump(@) ELSE @,
                   !.skipped = @ \/ (t.ok = 0 /\ ~Pushed(pushes, key)),
                   !.kept = @ \/ (t.ok > 0 /\ ~Pushed(pushes, key))]

PublishedHistOf(r, rec, keys, source) ==
    [pushedSince |-> PushedSince(r.pushedSince, rec.pushes),
     lastVal |-> [k \in Range(MetricKeys) |->
                     IF PushedOk(rec.pushes, k) THEN source[k] ELSE r.lastVal[k]],
     track |-> [k \in Range(MetricKeys) |->
                   Tracked(r.track[k], k, keys, source, rec.pushes)],
     trackAll |-> [k \in Range(MetricKeys) |->
                      Tracked(r.trackAll[k], k, keys, source, rec.pushes)]]

PublishedHist(r, rec, cfg, source) ==
    IF rec.outcome # "ran" THEN r
    ELSE PublishedHistOf(r, rec, collect_metrics(cfg.agent_metrics, source), source)

\* After a configuration change from old to new.
FreshTrack(r) ==
    [k \in Range(MetricKeys) |->
        IF r.lastVal[k] # "none" THEN [NoTrack EXCEPT !.val = r.lastVal[k]]
        ELSE NoTrack]

ReconfiguredHist(r, old, new) ==
    [pushedSince |-> EmptyMap,
     lastVal |-> r.lastVal,
     track |-> IF Strip(old.agent_name) # Strip(new.agent_name)
               THEN FreshTrack(r)
               ELSE [k \in Range(MetricKeys) |-> NoTrack],
     trackAll |-> IF Strip(old.agent_name) # Strip(new.agent_name)
                  THEN FreshTrack(r)
                  ELSE r.trackAll]

\* The run of _on_configuration_changed that started from e0 and left e1.
NoChange == [seen |-> FALSE, alive |-> TRUE, notif |-> FALSE, agent |-> FALSE,
             ntimer |-> FALSE, atimer |-> FALSE, log |-> <<>>]

ChangeRecord(e0, e1) ==
    [seen |-> TRUE, alive |-> e1.alive,
     notif |-> e1.config.receive_admin_notifications,
     agent |-> e1.config.use_agent /\ Strip(e1.config.agent_name) # <<>>,
     ntimer |-> e0.ntimer, atimer |-> e0.atimer, log |-> e1.log]

\* The configurations under which the entries of a structure were made,
\* after a slot under cfg took the structure from before to after.
MadeAfter(made, cleared, before, after, cfg) ==
    IF after = EmptyMap THEN {}
    ELSE (IF cleared THEN {} ELSE made)
         \cup (IF cleared \/ after # before THEN {cfg} ELSE {})

NoMade == [cache |-> {}, map |-> {}]

MadeBy(e, cache, payloads, made) ==
    [cache |-> MadeAfter(made.cache, "clear_cache" \in Range(e.log), cache,
                         e.icon_cache, e.config),
     map |-> MadeAfter(made.map, "clear_map" \in Range(e.log), payloads,
                       e.payloads, e.config)]

(***************************************************************************)
(* The outcomes a slot's gateway calls can have.  The outcome of a call    *)
(* the slot does not make is fixed to "ok".                                *)
(***************************************************************************)
\* The resource _entity_icon_from_api asks for, per listed entity.
UsedNames(states) ==
    {IF Strip(states[i].entity_picture) # <<>>
     THEN Strip(states[i].entity_picture)
     ELSE Strip(states[i].icon) :
        i \in {j \in 1..Len(states) : states[j].entity_id # <<>>}} \ {<<>>}

GatewayFor(cfg, cache, states, seeding) ==
    {g \in GatewayOutcomes :
        /\ ~HasCredentials(cfg) => g.states = "ok"
        /\ \A n \in ResourceNames :
              ~(/\ HasCredentials(cfg)
                /\ g.states = "ok"
                /\ n \in UsedNames(states)
                /\ ApiKey(cfg.base_url, n) \notin DOMAIN cache)
              => g.icons[n] = "ok"
        /\ ~(/\ seeding
             /\ cfg.receive_admin_notifications
             /\ HasCredentials(cfg)
             /\ g.states # "raise")
           => g.seed = "ok"}

PollOutcomesFor(cfg) == IF PollRan(cfg) THEN CallOutcomes ELSE {"ok"}

PushOutcomesFor(cfg, source) ==
    {op \in PushOutcomes :
        \A k \in Range(MetricKeys) :
            ~(/\ PublishRuns(cfg, source)
              /\ k \in Range(collect_metrics(cfg.agent_metrics, source)))
            => op[k] = "ok"}

(***************************************************************************)
(* Actions : one per slot, timer callback or change of the hub.            *)
(***************************************************************************)
Commit(e) ==
    /\ alive' = e.alive
    /\ config' = e.config
    /\ known_notifications' = e.known
    /\ icon_cache' = e.icon_cache
    /\ entity_states' = e.entity_states
    /\ agent_last_payloads' = e.payloads
    /\ notification_timer' = e.ntimer
    /\ agent_timer' = e.atimer
    /\ panel_refresh_timer' = e.ptimer
    /\ pending' = e.pending
    /\ panel_view' = e.view
    /\ menu' = e.menu
    /\ madeUnder' = Obs("made",
                        MadeBy(e, icon_cache, agent_last_payloads, madeUnder),
                        madeUnder)

\* The per-id history : the alerts and absences of an id are recorded under
\* "notif", what the seeding owes under "seed", what appeared since the
\* seeding under "fresh", the alerts of a listed id under "dup".
ObsHist(new, old) ==
    IF watch \cap {"notif", "seed", "fresh", "dup"} = {} THEN old
    ELSE
    [everSurfaced |-> Obs("notif", new.everSurfaced, old.everSurfaced),
     pruned |-> Obs("notif", new.pruned, old.pruned),
     prunedSeed |-> Obs("notif", new.prunedSeed, old.prunedSeed),
     missed |-> Obs("notif", new.missed, old.missed),
     missedSeed |-> Obs("notif", new.missedSeed, old.missedSeed),
     resurfaced |-> Obs("notif", new.resurfaced, old.resurfaced),
     seedOwed |-> Obs("seed", new.seedOwed, old.seedOwed),
     owedAlerted |-> Obs("seed", new.owedAlerted, old.owedAlerted),
     seeded |-> Obs("fresh", new.seeded, old.seeded),
     fresh |-> Obs("fresh", new.fresh, old.fresh),
     freshSince |-> Obs("fresh", new.freshSince, old.freshSince),
     freshAlerted |-> Obs("fresh", new.freshAlerted, old.freshAlerted),
     swallowed |-> Obs("fresh", new.swallowed, old.swallowed),
     swallowedSince |-> Obs("fresh", new.swallowedSince, old.swallowedSince),
     live |-> Obs("dup", new.live, old.live),
     duplicated |-> Obs("dup", new.duplicated, old.duplicated)]

\* The per-metric history : what was pushed since the last configuration
\* change is recorded under "publish", the rest under "republish".
ObsRepublish(new, old) ==
    [pushedSince |-> Obs("publish", new.pushedSince, old.pushedSince),
     lastVal |-> Obs("republish", new.lastVal, old.lastVal),
     track |-> Obs("republish", new.track, old.track),
     trackAll |-> Obs("republish", new.trackAll, old.trackAll)]

\* Under "last" a slot forgets the runs of the other jobs, so that only the
\* last run of any job is recorded.
Forget(record, none) == IF "last" \in watch THEN none ELSE record

ForgetPoll == lastPoll' = Forget(lastPoll, NoPoll)

ForgetRefresh == lastRefresh' = Forget(lastRefresh, NoRefresh)

ForgetPublish == lastPublish' = Forget(lastPublish, NoPublish)

hubVars == <<hubNotifications, hubStates, metricSource>>

\* What the slots of the engine leave alone.
sideVars == <<stack, due, probe>>

Running == alive /\ started

\* The slot leaves the engine e; its update_entities started from e0 with
\* the fetch counts fc.
Refreshed(trigger, e0, e, outcome, fc) ==
    /\ Commit(e)
    /\ lastRefresh' = Obs("refresh",
                          RefreshRecord(trigger, e0, e, outcome, hubStates),
                          lastRefresh)
    /\ fetchCount' = Obs("fetch", CountFetches(fc, e.fetches), fetchCount)
    /\ lastChange' = IF trigger = "config"
                     THEN Obs("change", ChangeRecord(e0, e), lastChange)
                     ELSE lastChange

\* TrayIcon.__init__ (tray.py 20-61) under the loaded configuration.
TrayIconInit ==
    /\ alive /\ ~started
    /\ \E g \in GatewayFor(config, icon_cache, hubStates, TRUE) :
          Refreshed("init", Engine,
                    tray_icon_init(Engine, g, hubStates, hubNotifications),
                    g.states, EmptyMap)
    /\ notifHist' = ObsHist(AppliedHist(notifHist, FALSE,
                                        config.receive_admin_notifications,
                                        hubNotifications),
                            notifHist)
    /\ started' = TRUE
    /\ ForgetPoll /\ ForgetPublish
    /\ UNCHANGED <<hubVars, sideVars, republish, watch>>

\* The panel refresh timer fires : update_entities (tray.py 65-142).
PanelRefreshTick ==
    /\ Running /\ panel_refresh_timer > 0
    /\ \E g \in GatewayFor(config, icon_cache, hubStates, FALSE) :
          Refreshed("timer", Engine,
                    update_entities(Engine, g.states, hubStates, g.icons),
                    g.states, fetchCount)
    /\ ForgetPoll /\ ForgetPublish
    /\ UNCHANGED <<started, hubVars, sideVars, notifHist, republish, watch>>

\* _check_notifications (tray.py 224-253), from either trigger.
PollObserved(rec) ==
    /\ lastPoll' = Obs("poll", rec, lastPoll)
    /\ notifHist' = ObsHist(PollHist(notifHist, rec), notifHist)

PollDone(e0, e, o) ==
    /\ Commit(e)
    /\ PollObserved(PollRecord(e0, e, o, hubNotifications))

CheckNotificationsRun(e0) ==
    \E o \in PollOutcomesFor(e0.config) :
        PollDone(e0, check_notifications(e0, o, hubNotifications), o)

\* The 30 s notification timer fires.
NotificationTimerTick ==
    /\ Running /\ notification_timer
    /\ CheckNotificationsRun(Engine)
    /\ ForgetRefresh /\ ForgetPublish
    /\ UNCHANGED <<started, hubVars, sideVars, fetchCount, republish,
                   lastChange, watch>>

\* A queued QTimer.singleShot(0, self._check_notifications) fires.
PendingCheckFire ==
    /\ Running /\ pending.check > 0
    /\ CheckNotificationsRun([Engine EXCEPT !.pending.check = @ - 1])
    /\ ForgetRefresh /\ ForgetPublish
    /\ UNCHANGED <<started, hubVars, sideVars, fetchCount, republish,
                   lastChange, watch>>

\* _publish_agent_metrics (tray.py 264-295), from either trigger.
PublishObserved(rec, cfg) ==
    /\ lastPublish' = Obs("publish", rec, lastPublish)
    /\ republish' = ObsRepublish(PublishedHist(republish, rec, cfg, metricSource),
                                 republish)

PublishDone(e0, e) ==
    /\ Commit(e)
    /\ PublishObserved(PublishRecord(e0, e, metricSource, republish.pushedSince),
                       e0.config)

PublishRun(e0) ==
    \E op \in PushOutcomesFor(e0.config, metricSource) :
        PublishDone(e0, publish_agent_metrics(e0, metricSource, op))

\* The 60 s agent timer fires.
AgentTimerTick ==
    /\ Running /\ agent_timer
    /\ PublishRun(Engine)
    /\ ForgetPoll /\ ForgetRefresh
    /\ UNCHANGED <<started, hubVars, sideVars, fetchCount, notifHist,
                   lastChange, watch>>

\* A queued QTimer.singleShot(0, self._publish_agent_metrics) fires.
PendingPublishFire ==
    /\ Running /\ pending.publish > 0
    /\ PublishRun([Engine EXCEPT !.pending.publish = @ - 1])
    /\ ForgetPoll /\ ForgetRefresh
    /\ UNCHANGED <<started, hubVars, sideVars, fetchCount, notifHist,
                   lastChange, watch>>

\* The handler of a change to cfg queues a run of each enabled job
\* (tray.py 222, 259) : the queues are kept within MaxPending.
QueueHasRoom(cfg) ==
    /\ cfg.receive_admin_notifications => pending.check < MaxPending
    /\ PublishingEnabled(cfg) => pending.publish < MaxPending

\* SettingsDialog._save accepts the configuration cfg
\* (settings.py 301-335) and configuration_changed reaches
\* _on_configuration_changed (tray.py 152-161).
SaveConfiguration(choices) ==
    /\ Running
    /\ \E cfg \in {c \in choices : Saveable(c) /\ QueueHasRoom(c)} :
          /\ \E g \in GatewayFor(cfg, EmptyMap, hubStates, TRUE) :
                Refreshed("config",
                          [Engine EXCEPT !.config = cfg, !.icon_cache = EmptyMap],
                          on_configuration_changed(Engine, cfg, g, hubStates,
                                                   hubNotifications),
                          g.states, EmptyMap)
          /\ notifHist' = ObsHist(AppliedHist(notifHist,
                                              config.receive_admin_notifications,
                                              cfg.receive_admin_notifications,
                                              hubNotifications),
                                  notifHist)
          /\ republish' = ObsRepublish(ReconfiguredHist(republish, config, cfg),
                                       republish)
    /\ lastPublish' = NoPublish
    /\ ForgetPoll
    /\ UNCHANGED <<started, hubVars, sideVars, watch>>

\* SettingsDialog._save rejects the form, the agent enabled without a name
\* (settings.py 301-319).  The dialog holds the engine's configuration
\* itself (settings.py 42, tray.py 148), so the fields assigned before the
\* check have reached the engine, and no signal is emitted.
RejectedSave(cfg, form) ==
    [cfg EXCEPT !.base_url = form.base_url,
                !.api_token = form.api_token,
                !.panel_refresh_minutes =
                     SpinBoxValue(form.panel_refresh_minutes),
                !.receive_admin_notifications = form.receive_admin_notifications,
                !.use_agent = TRUE]

SaveRejected(choices) ==
    /\ Running
    /\ \E form \in choices :
          /\ RejectedSave(config, form) # config
          /\ config' = RejectedSave(config, form)
          /\ notifHist' = IF watch \cap {"fresh", "dup"} = {} THEN notifHist
                           ELSE ObsHist(RejectedHist(notifHist,
                                                     RejectedSave(config, form)),
                                        notifHist)
    /\ UNCHANGED <<alive, started, known_notifications, icon_cache,
                   entity_states, agent_last_payloads, notification_timer,
                   agent_timer, panel_refresh_timer, pending, panel_view, menu,
                   hubVars, sideVars, lastPoll, lastRefresh, lastPublish,
                   fetchCount, republish, lastChange, madeUnder, watch>>

engineVars == <<alive, started, config, known_notifications, icon_cache,
                entity_states, agent_last_payloads, notification_timer,
                agent_timer, panel_refresh_timer, pending, panel_view, menu,
                lastPoll, lastRefresh, lastPublish, fetchCount, republish,
                lastChange, madeUnder, stack, due, probe, watch>>

\* The Known set was seeded and the preference is enabled.
NotificationsCounted ==
    started /\ config.receive_admin_notifications /\ notifHist.seeded

\* Notifications are created or dismissed at the hub.
HubNotificationsChange ==
    /\ alive
    /\ \E l \in HubNotificationLists :
          /\ l # hubNotifications
          /\ hubNotifications' = l
          /\ notifHist' = IF watch \cap {"seed", "fresh"} = {} THEN notifHist
                           ELSE ObsHist(AppearedHist(notifHist,
                                                     hubNotifications, l,
                                                     known_notifications,
                                                     NotificationsCounted),
                                        notifHist)
    /\ UNCHANGED <<engineVars, hubStates, metricSource>>

\* The lists of a hub where n1 comes first and n2 only beside it.
FrameNotificationLists == {<<>>, <<<<"n1">>>>, <<<<"n1">>, <<"n2">>>>}

\* Notifications appear and disappear at the hub.
FrameNotificationsChange ==
    /\ alive
    /\ \E l \in FrameNotificationLists :
          /\ l # hubNotifications
          /\ hubNotifications' = l
          /\ notifHist' = IF watch \cap {"seed", "fresh"} = {} THEN notifHist
                           ELSE ObsHist(AppearedHist(notifHist,
                                                     hubNotifications, l,
                                                     known_notifications,
                                                     NotificationsCounted),
                                        notifHist)
    /\ UNCHANGED <<engineVars, hubStates, metricSource>>

\* Entities appear, disappear or change at the hub.
HubStatesChange ==
    /\ alive
    /\ \E l \in HubStateLists : l # hubStates /\ hubStates' = l
    /\ UNCHANGED <<engineVars, notifHist, hubNotifications, metricSource>>

\* The readings of the metric collectors change.
MetricsChange ==
    /\ alive
    /\ \E m \in [Range(MetricKeys) -> MetricTags] :
          m # metricSource /\ metricSource' = m
    /\ UNCHANGED <<engineVars, notifHist, hubNotifications, hubStates>>

(***************************************************************************)
(* Specifications.  Each lets one side of the hub vary, saves              *)
(* configurations that differ in the settings that side depends on, and    *)
(* records the histories its properties read.                              *)
(***************************************************************************)
NoProbe == [fn |-> "none", input |-> <<>>, output |-> <<>>]

InitFields ==
    /\ alive = TRUE
    /\ started = FALSE
    /\ known_notifications = {}
    /\ icon_cache = EmptyMap
    /\ entity_states = EmptyMap
    /\ agent_last_payloads = EmptyMap
    /\ notification_timer = FALSE
    /\ agent_timer = FALSE
    /\ panel_refresh_timer = 0
    /\ pending = [check |-> 0, publish |-> 0]
    /\ panel_view = <<>>
    /\ menu = <<SettingsAction, Separator, QuitAction>>
    /\ lastPoll = NoPoll
    /\ lastRefresh = NoRefresh
    /\ lastPublish = NoPublish
    /\ fetchCount = EmptyMap
    /\ notifHist = NoNotifHist
    /\ republish = NoRepublish
    /\ lastChange = NoChange
    /\ madeUnder = NoMade
    /\ stack = <<>>
    /\ due = {}

InitEngine == InitFields /\ probe = NoProbe

Credentials == {<<"ha", "tok">>, <<"", "tok">>, <<"ha", "">>}

NotifConfigs ==
    {MkConfig(c[1], c[2], <<E_light.entity_id>>, n, FALSE, <<>>, <<>>, 5) :
        c \in Credentials, n \in BOOLEAN}

NotifSide ==
    /\ InitEngine
    /\ config \in NotifConfigs
    /\ hubNotifications \in HubNotificationLists
    /\ hubStates = <<>>
    /\ metricSource = [k \in Range(MetricKeys) |-> "v1"]

NextNotif ==
    \/ TrayIconInit
    \/ PanelRefreshTick
    \/ NotificationTimerTick
    \/ PendingCheckFire
    \/ SaveConfiguration(NotifConfigs)
    \/ SaveRejected(NotifConfigs)
    \/ HubNotificationsChange

\* Notification polling, each poll recorded.
InitPoll == NotifSide /\ watch = {"poll"}

SpecPoll == InitPoll /\ [][NextNotif]_vars

\* C1 : a successful notification poll that starts from the Known set K and
\* lists the non-empty ids N surfaces exactly the ids of N \ K, each of
\* them once, and leaves the Known set equal to N.
PollSurfacesNewIds ==
    lastPoll.outcome = "ok" =>
        /\ Range(lastPoll.alerts) = lastPoll.N \ lastPoll.K
        /\ \A i, j \in 1..Len(lastPoll.alerts) :
              lastPoll.alerts[i] = lastPoll.alerts[j] => i = j
        /\ lastPoll.after = lastPoll.N

\* A poll that started with n1 known listed n2 twice.
PollSurfacesNewIdsWitness ==
    /\ lastPoll.outcome = "ok"
    /\ lastPoll.K = {<<"n1">>}
    /\ hubNotifications = << <<"n2">>, <<"n2">> >>
    /\ lastPoll.alerts = << <<"n2">> >>

\* C3 : a notification poll whose list_notifications call fails surfaces
\* no alert and leaves the Known set as it was before the poll.
FailedPollIsNoOp ==
    lastPoll.outcome \in {"error", "raise"} =>
        /\ lastPoll.alerts = <<>>
        /\ lastPoll.after = lastPoll.K

\* A poll failed while the Known set held an id.
FailedPollIsNoOpWitness ==
    /\ lastPoll.outcome = "error"
    /\ lastPoll.K # {}

KnownSide ==
    /\ InitEngine
    /\ config \in NotifConfigs
    /\ hubNotifications \in FrameNotificationLists
    /\ hubStates = <<>>
    /\ metricSource = [k \in Range(MetricKeys) |-> "v1"]

\* Notification polling, the history of every id recorded.
InitNotif == KnownSide /\ watch = {"notif"}

\* The slots that read or write the Known set, and the hub.
NextKnown ==
    \/ TrayIconInit
    \/ NotificationTimerTick
    \/ PendingCheckFire
    \/ SaveConfiguration(NotifConfigs)
    \/ SaveRejected(NotifConfigs)
    \/ FrameNotificationsChange

SpecNotif == InitNotif /\ [][NextKnown]_vars

\* C2 as stated : an id that was surfaced, then absent from a successful
\* poll, is surfaced by every later successful poll that lists it again.
PrunedIdResurfaces == notifHist.missed = {}

\* C2 : an id that was surfaced, then absent from a successful poll, is
\* surfaced again by the next successful poll that lists it, provided no
\* configuration change re-seeded the Known set since it was absent.
PrunedIdResurfacesUnlessReseeded == notifHist.missedSeed = {}

\* n1 was surfaced, was absent from a poll and has been surfaced again.
PrunedIdResurfacesWitness == <<"n1">> \in notifHist.resurfaced

\* Notification polling, what the seeding owes recorded.
InitSeed == NotifSide /\ watch = {"seed"}

SpecSeed == InitSeed /\ [][NextNotif]_vars

\* C9 : a notification that existed at the hub when the preference was
\* enabled, and has existed since, is never surfaced as an alert.
SeedingSilencesExisting == notifHist.owedAlerted = {}

(***************************************************************************)
(* Entity refresh.                                                         *)
(***************************************************************************)
ViewConfigs ==
    {MkConfig(url, "tok", ents, FALSE, FALSE, <<>>, <<>>, 5) :
        url \in {"ha", ""}, ents \in EntityChoices}

ViewSide ==
    /\ InitEngine
    /\ config \in ViewConfigs
    /\ hubNotifications = <<>>
    /\ hubStates \in HubStateLists
    /\ metricSource = [k \in Range(MetricKeys) |-> "v1"]

NextView ==
    \/ TrayIconInit
    \/ PanelRefreshTick
    \/ SaveConfiguration(ViewConfigs)
    \/ SaveRejected(ViewConfigs)
    \/ HubStatesChange

\* Entity refresh, each run and each remote icon fetch recorded.
InitView == ViewSide /\ watch = {"refresh", "fetch"}

SpecView == InitView /\ [][NextView]_vars

\* C7 : between two configuration changes no (base address, resource name)
\* pair is fetched from the hub more than once, whatever the fetches return.
AtMostOneFetchPerResource ==
    \A k \in DOMAIN fetchCount : fetchCount[k] <= 1

\* A refresh listed the lamp while the failed fetch of its icon was cached :
\* the lamp got its local icon and the icon was not fetched again.
AtMostOneFetchPerResourceWitness ==
    /\ lastRefresh.outcome = "ok"
    /\ ApiKey("ha", <<"mdi:lamp">>) \in DOMAIN lastRefresh.cacheBefore
    /\ lastRefresh.cacheBefore[ApiKey("ha", <<"mdi:lamp">>)].null
    /\ \E i \in 1..Len(panel_view) :
          panel_view[i] = PanelEntity(E_light.entity_id, E_light.friendly_name,
                                      load_domain_icon(E_light.entity_id))
    /\ fetchCount[ApiKey("ha", <<"mdi:lamp">>)] = 1

\* The view update_entities publishes when the hub gave no state : the
\* configured entities under their ids, with the icon of their domain.
FallbackView(entities) ==
    [i \in 1..Len(entities) |->
        PanelEntity(entities[i], entities[i], load_domain_icon(entities[i]))]

CacheKept(before, after) ==
    \A k \in DOMAIN before : k \in DOMAIN after /\ after[k] = before[k]

\* C8 as stated : a refresh run of the timer whose list_entity_states call
\* fails leaves the published view as it was and clears no cache.
FailedRefreshKeepsView ==
    lastRefresh.trigger = "timer" /\ lastRefresh.outcome \in {"error", "raise"} =>
        /\ panel_view = lastRefresh.viewBefore
        /\ CacheKept(lastRefresh.cacheBefore, icon_cache)

\* C8 : a refresh whose list_entity_states call fails with a
\* HomeAssistantError publishes the configured entities under their ids
\* with local icons and empties the stored states; one whose call raises
\* any other exception publishes nothing; neither clears the icon cache.
FailedRefreshPublishesFallback ==
    /\ lastRefresh.outcome = "error" =>
          /\ lastRefresh.published
          /\ panel_view = FallbackView(lastRefresh.entities)
          /\ entity_states = EmptyMap
          /\ CacheKept(lastRefresh.cacheBefore, icon_cache)
    /\ lastRefresh.outcome = "raise" =>
          /\ ~lastRefresh.published
          /\ panel_view = lastRefresh.viewBefore
          /\ CacheKept(lastRefresh.cacheBefore, icon_cache)

\* A refresh failed after the hub's lamp had been published with a cached
\* remote icon.
FailedRefreshPublishesFallbackWitness ==
    /\ lastRefresh.trigger = "timer"
    /\ lastRefresh.outcome = "error"
    /\ lastRefresh.viewBefore =
          <<PanelEntity(E_light.entity_id, E_light.friendly_name,
                        RemoteIcon(<<"mdi:lamp">>))>>
    /\ lastRefresh.entities # <<>>
    /\ ApiKey("ha", <<"mdi:lamp">>) \in DOMAIN icon_cache

\* C10 : no failure of a gateway call leaves the run that made it, so the
\* process keeps running.
NoFailureEscapes == alive

(***************************************************************************)
(* Metric publishing.                                                      *)
(***************************************************************************)
AgentConfigs ==
    {MkConfig("ha", "tok", <<>>, FALSE, TRUE, n, m, 5) :
        n \in {Name_PC, Name_PCbang},
        m \in {<<"disk_free_gb">>, <<"disk_free_gb", "uptime_seconds">>}}
    \cup {MkConfig("ha", "tok", <<>>, FALSE, TRUE, Name_blank,
                   <<"disk_free_gb">>, 5),
          MkConfig("ha", "tok", <<>>, FALSE, FALSE, Name_PC,
                   <<"disk_free_gb">>, 5),
          MkConfig("ha", "", <<>>, FALSE, TRUE, Name_PC,
                   <<"disk_free_gb">>, 5)}

AgentSide ==
    /\ InitEngine
    /\ config \in AgentConfigs
    /\ hubNotifications = <<>>
    /\ hubStates = <<>>
    /\ metricSource \in [Range(MetricKeys) -> MetricTags]

NextAgent ==
    \/ TrayIconInit
    \/ PanelRefreshTick
    \/ AgentTimerTick
    \/ PendingPublishFire
    \/ SaveConfiguration(AgentConfigs)
    \/ SaveRejected(AgentConfigs)
    \/ MetricsChange

\* Metric publishing, each run recorded.
InitAgent == AgentSide /\ watch = {"publish"}

SpecAgent == InitAgent /\ [][NextAgent]_vars

PushesOf(pushes, entity_id) ==
    {i \in 1..Len(pushes) : pushes[i].entity_id = entity_id}

\* C4 : a publish run pushes a destination exactly when its fresh signature
\* differs from the stored one, and then once; a signature that the last
\* successful push since the configuration change carried is not pushed
\* again.
PushOnlyWhenSignatureDiffers ==
    lastPublish.outcome = "ran" =>
        /\ \A i \in 1..Len(lastPublish.collected) :
              Cardinality(PushesOf(lastPublish.pushes,
                                   lastPublish.collected[i].entity_id))
                = IF PayloadUnchanged(lastPublish.before,
                                      lastPublish.collected[i].entity_id,
                                      lastPublish.collected[i].signature)
                  THEN 0 ELSE 1
        /\ \A j \in 1..Len(lastPublish.pushes) :
              /\ \E i \in 1..Len(lastPublish.collected) :
                    /\ lastPublish.collected[i].entity_id
                         = lastPublish.pushes[j].entity_id
                    /\ lastPublish.collected[i].signature
                         = lastPublish.pushes[j].signature
              /\ lastPublish.pushes[j].entity_id \in DOMAIN lastPublish.prior
                    => lastPublish.prior[lastPublish.pushes[j].entity_id]
                         # lastPublish.pushes[j].signature

\* A run collected two metrics whose signatures had both been pushed and
\* pushed neither.
PushOnlyWhenSignatureDiffersWitness ==
    /\ lastPublish.outcome = "ran"
    /\ Len(lastPublish.collected) = 2
    /\ lastPublish.pushes = <<>>
    /\ \A i \in 1..2 :
          lastPublish.collected[i].entity_id \in DOMAIN lastPublish.prior

\* C5 : after a publish run the map holds the pushed signature of every
\* destination whose push succeeded, and what it held before the run (an
\* entry or none) of every destination whose push failed.
MapFollowsPushOutcome ==
    lastPublish.outcome = "ran" =>
        \A j \in 1..Len(lastPublish.pushes) :
            IF lastPublish.pushes[j].ok
            THEN /\ lastPublish.pushes[j].entity_id \in DOMAIN agent_last_payloads
                 /\ agent_last_payloads[lastPublish.pushes[j].entity_id]
                      = lastPublish.pushes[j].signature
            ELSE IF lastPublish.pushes[j].entity_id \in DOMAIN lastPublish.before
            THEN /\ lastPublish.pushes[j].entity_id \in DOMAIN agent_last_payloads
                 /\ agent_last_payloads[lastPublish.pushes[j].entity_id]
                      = lastPublish.before[lastPublish.pushes[j].entity_id]
            ELSE lastPublish.pushes[j].entity_id \notin DOMAIN agent_last_payloads

\* A run pushed one metric with success and failed to push another that
\* had an entry, which was pushed before and failed then as well.
MapFollowsPushOutcomeWitness ==
    /\ lastPublish.outcome = "ran"
    /\ Len(lastPublish.pushes) = 2
    /\ lastPublish.pushes[1].ok
    /\ ~lastPublish.pushes[2].ok
    /\ lastPublish.pushes[2].entity_id \in DOMAIN lastPublish.before

\* The disk metric under two labels, and publishing disabled.
RepublishConfigs ==
    {MkConfig("ha", "tok", <<>>, FALSE, a, n, <<"disk_free_gb">>, 5) :
        a \in BOOLEAN, n \in {Name_PC, Name_PCbang}}

RepublishSide ==
    /\ InitEngine
    /\ config \in RepublishConfigs
    /\ hubNotifications = <<>>
    /\ hubStates = <<>>
    /\ metricSource \in {m \in [Range(MetricKeys) -> MetricTags] :
                             m["uptime_seconds"] = "v1"}

\* The reading of the disk metric changes.
DiskMetricChange ==
    /\ alive
    /\ \E t \in MetricTags :
          /\ t # metricSource["disk_free_gb"]
          /\ metricSource' = [metricSource EXCEPT !["disk_free_gb"] = t]
    /\ UNCHANGED <<engineVars, notifHist, hubNotifications, hubStates>>

\* Metric publishing, the pushes of each metric since the last change of
\* the label recorded.
InitRepublish == RepublishSide /\ watch = {"republish"}

\* The slots that read or write the Last-Published-Value Map, and the
\* metric sources.
NextPublished ==
    \/ TrayIconInit
    \/ AgentTimerTick
    \/ PendingPublishFire
    \/ SaveConfiguration(RepublishConfigs)
    \/ SaveRejected(RepublishConfigs)
    \/ DiskMetricChange

SpecRepublish == InitRepublish /\ [][NextPublished]_vars

\* C6 as stated : after a change of the label a metric that was published
\* and keeps its value is pushed by the first run that collects it, until
\* a push succeeds, and is pushed with success at most once.
RepublishedOnce ==
    \A k \in Range(MetricKeys) :
        republish.trackAll[k].ok <= 1 /\ ~republish.trackAll[k].skipped

\* C6 : the same, until the value changes or the configuration is changed
\* again.
RepublishedOncePerChange ==
    \A k \in Range(MetricKeys) :
        republish.track[k].ok <= 1 /\ ~republish.track[k].skipped

\* After a change of the label the disk metric kept its value, was pushed
\* with success once and was left out by a later run.
RepublishedOncePerChangeWitness ==
    /\ republish.track["disk_free_gb"].val # "none"
    /\ republish.track["disk_free_gb"].ok = 1
    /\ republish.track["disk_free_gb"].kept

(***************************************************************************)
(* Scheduling, failures and reconfiguration.                               *)
(***************************************************************************)
\* C11 : a notification poll whose list_notifications call timed out leaves
\* the process running with the notification timer armed, so that the poll
\* runs again at the next tick.
TimedOutRunKeepsTimerArmed ==
    lastPoll.outcome = "raise" => alive /\ notification_timer

\* Metric publishing and entity refresh, the configuration under which each
\* entry of the icon cache and of the payload map was made recorded.
InitMade == AgentSide /\ watch = {"made"}

SpecMade == InitMade /\ [][NextAgent]_vars

\* C12 : every entry the icon cache and the payload map hold was made under
\* the configuration the engine has now, so that a run reads no entry made
\* under a previous configuration.
NoEntryOfPreviousConfiguration ==
    /\ madeUnder.cache \subseteq {config}
    /\ madeUnder.map \subseteq {config}

(***************************************************************************)
(* Reconfiguration : the timers and the out-of-band runs.                  *)
(***************************************************************************)
ChangeConfigs ==
    {MkConfig("ha", "tok", <<>>, n, a, Name_PC, <<"disk_free_gb">>, m) :
        n \in BOOLEAN, a \in BOOLEAN, m \in {5, 10}}

ChangeSide ==
    /\ InitEngine
    /\ config \in ChangeConfigs
    /\ hubNotifications = << <<"n1">> >>
    /\ hubStates = <<E_light>>
    /\ metricSource = [k \in Range(MetricKeys) |-> "v1"]

NextChange ==
    \/ TrayIconInit
    \/ PanelRefreshTick
    \/ NotificationTimerTick
    \/ PendingCheckFire
    \/ AgentTimerTick
    \/ PendingPublishFire
    \/ SaveConfiguration(ChangeConfigs)
    \/ SaveRejected(ChangeConfigs)

\* Every run of _on_configuration_changed recorded.
InitChange == ChangeSide /\ watch = {"change"}

SpecChange == InitChange /\ [][NextChange]_vars

Count(log, ev) == Cardinality({i \in 1..Len(log) : log[i] = ev})

\* C13 : a configuration change runs the entity refresh once, queues one
\* notification poll exactly when the preference is on and one metric
\* publish exactly when agent publishing is on with a label.
ChangeRunsEachEnabledJobOnce ==
    lastChange.seen =>
        /\ Count(lastChange.log, "refresh") = 1
        /\ Count(lastChange.log, "queue_check")
             = IF lastChange.notif THEN 1 ELSE 0
        /\ Count(lastChange.log, "queue_publish")
             = IF lastChange.agent THEN 1 ELSE 0

\* C14 : a configuration change that the process survives has started the
\* timer of every enabled job anew, also a timer that was running.
ChangeRestartsEveryTimer ==
    lastChange.seen /\ lastChange.alive =>
        /\ Count(lastChange.log, "start_panel") = 1
        /\ lastChange.notif => Count(lastChange.log, "start_notification") = 1
        /\ lastChange.agent => Count(lastChange.log, "start_agent") = 1

(***************************************************************************)
(* The GUI thread.  Qt calls a slot from an event loop : app.exec()        *)
(* (main.py 22) while no slot is in flight, or a loop that the innermost   *)
(* frame in flight runs itself.  The body of a job is in flight from its   *)
(* call to its return; its blocking gateway calls return in between, and   *)
(* the timers time out meanwhile.                                          *)
(***************************************************************************)
Jobs == {"refresh", "poll", "publish"}

Bodies == Jobs \cup {"reconfigure"}

\* Every frame lets the event loop run.
RunsEventLoopAlways(kind) == TRUE

\* dialog.exec() (tray.py 150) and QMessageBox.warning (settings.py 314)
\* run an event loop.  update_entities, _check_notifications,
\* _publish_agent_metrics and _on_configuration_changed run none : their
\* gateway calls are requests calls on the GUI thread.
RunsEventLoop(kind) == kind \in {"dialog", "warning"}

\* The four shared structures.
Shared ==
    [known |-> known_notifications, cache |-> icon_cache,
     payloads |-> agent_last_payloads, states |-> entity_states]

NoShared ==
    [known |-> {}, cache |-> EmptyMap, payloads |-> EmptyMap,
     states |-> EmptyMap]

\* A frame remembers the shared structures its body started from.
Frame(kind) ==
    [kind |-> kind, shared |-> IF kind \in Bodies THEN Shared ELSE NoShared]

Top == stack[Len(stack)]

Pop(n) == SubSeq(stack, 1, Len(stack) - n)

CanDispatch == IF stack = <<>> THEN TRUE ELSE RunsEventLoop(Top.kind)

InFlight(kind) == IF stack = <<>> THEN FALSE ELSE Top.kind = kind

TimerActive(j) ==
    CASE j = "refresh" -> panel_refresh_timer > 0
      [] j = "poll" -> notification_timer
      [] j = "publish" -> agent_timer

histVars == <<lastPoll, lastRefresh, lastPublish, fetchCount, notifHist,
              republish, lastChange>>

LoopStep(e, st, d) ==
    /\ Commit(e)
    /\ stack' = st
    /\ due' = d
    /\ UNCHANGED <<started, hubVars, histVars, probe, watch>>

\* The interval of the timer of job j has passed.
TimerDue ==
    /\ Running
    /\ \E j \in Jobs \ due :
          /\ TimerActive(j)
          /\ LoopStep(Engine, stack, due \cup {j})

\* The event loop calls the slot of the timer of job j (tray.py 41-56).
StartJob(j) ==
    /\ Running /\ CanDispatch
    /\ j \in due
    /\ LoopStep(Engine, Append(stack, Frame(j)), due \ {j})

StartDue == \E j \in Jobs : StartJob(j)

\* The event loop calls a slot queued with QTimer.singleShot(0, ...).
StartQueuedCheck ==
    /\ Running /\ CanDispatch
    /\ pending.check > 0
    /\ LoopStep([Engine EXCEPT !.pending.check = @ - 1],
                Append(stack, Frame("poll")), due)

StartQueuedPublish ==
    /\ Running /\ CanDispatch
    /\ pending.publish > 0
    /\ LoopStep([Engine EXCEPT !.pending.publish = @ - 1],
                Append(stack, Frame("publish")), due)

\* The body in flight returns.
FinishRefresh ==
    /\ Running /\ InFlight("refresh")
    /\ \E g \in GatewayFor(config, icon_cache, hubStates, FALSE) :
          LoopStep(update_entities(Engine, g.states, hubStates, g.icons),
                   Pop(1), due)

FinishPoll ==
    /\ Running /\ InFlight("poll")
    /\ \E o \in PollOutcomesFor(config) :
          LoopStep(check_notifications(Engine, o, hubNotifications),
                   Pop(1), due)

FinishPublish ==
    /\ Running /\ InFlight("publish")
    /\ \E op \in PushOutcomesFor(config, metricSource) :
          LoopStep(publish_agent_metrics(Engine, metricSource, op),
                   Pop(1), due)

\* The Settings action is triggered : _open_settings (tray.py 146-150).
OpenSettings ==
    /\ Running /\ CanDispatch
    /\ \A i \in 1..Len(stack) : stack[i].kind # "dialog"
    /\ LoopStep(Engine, Append(stack, Frame("dialog")), due)

\* SettingsDialog._save accepts the form (settings.py 301-334) and emits
\* configuration_changed : _on_configuration_changed is called.
StartReconfigure(choices) ==
    /\ Running /\ InFlight("dialog")
    /\ \E cfg \in {c \in choices : Saveable(c) /\ QueueHasRoom(c)} :
          LoopStep([Engine EXCEPT !.config = cfg],
                   Append(stack, Frame("reconfigure")), due)

\* The timers that have timed out and are still due when the handler left
\* the engine e : the panel timer was started anew, a stopped timer is not
\* due.
DueAfter(e) ==
    {j \in due \ {"refresh"} :
        (j = "poll" /\ e.ntimer) \/ (j = "publish" /\ e.atimer)}

\* _on_configuration_changed returns, and SettingsDialog.accept
\* (settings.py 335) ends the dialog's loop.
Reconfigured(e) == LoopStep(e, Pop(2), DueAfter(e))

FinishReconfigure ==
    /\ Running /\ InFlight("reconfigure")
    /\ \E g \in GatewayFor(config, EmptyMap, hubStates, TRUE) :
          Reconfigured(on_configuration_changed(Engine, config, g, hubStates,
                                                hubNotifications))

\* SettingsDialog._save rejects the form and shows the warning
\* (settings.py 301-319).
RejectSave(choices) ==
    /\ Running /\ InFlight("dialog")
    /\ \E form \in choices :
          LoopStep([Engine EXCEPT !.config = RejectedSave(config, form)],
                   Append(stack, Frame("warning")), due)

\* The warning is closed; the dialog is cancelled.
CloseWarning ==
    /\ Running /\ InFlight("warning")
    /\ LoopStep(Engine, Pop(1), due)

CloseDialog ==
    /\ Running /\ InFlight("dialog")
    /\ LoopStep(Engine, Pop(1), due)

LoopConfigs ==
    {MkConfig("ha", "tok", <<E_light.entity_id>>, n, n, Name_PC,
              <<"disk_free_gb">>, 5) : n \in BOOLEAN}

LoopSide ==
    /\ InitEngine
    /\ config \in LoopConfigs
    /\ hubNotifications = << <<"n1">> >>
    /\ hubStates = <<E_light>>
    /\ metricSource = [k \in Range(MetricKeys) |-> "v1"]

NextLoop ==
    \/ TrayIconInit
    \/ TimerDue
    \/ StartDue
    \/ StartQueuedCheck
    \/ StartQueuedPublish
    \/ FinishRefresh
    \/ FinishPoll
    \/ FinishPublish
    \/ OpenSettings
    \/ StartReconfigure(LoopConfigs)
    \/ FinishReconfigure
    \/ RejectSave(LoopConfigs)
    \/ CloseWarning
    \/ CloseDialog

InitLoop == LoopSide /\ watch = {}

SpecLoop == InitLoop /\ [][NextLoop]_vars

\* C15 : a body in flight is the innermost frame of the GUI thread, so no
\* slot is called before it returns, and the four shared structures are as
\* they were when it started; this holds under the loops of the settings
\* dialog and of its warning as well.
BodiesRunAtomically ==
    \A i \in 1..Len(stack) :
        stack[i].kind \in Bodies =>
            /\ i = Len(stack)
            /\ stack[i].shared = Shared

\* A notification poll is in flight, called from the loop of the settings
\* dialog, while the timers of the two other jobs have timed out.
BodiesRunAtomicallyWitness ==
    /\ Len(stack) = 2
    /\ stack[1].kind = "dialog"
    /\ stack[2].kind = "poll"
    /\ due = {"refresh", "publish"}

\* C16 : while the body of one job is in flight, waiting for its gateway
\* call, the slot of another job whose timer has timed out can be called.
DueJobStartsDuringCall ==
    \A j \in due :
        alive /\ stack # <<>> /\ Top.kind \in Jobs \ {j} => ENABLED StartJob(j)

(***************************************************************************)
(* The three jobs side by side, with and without credentials.              *)
(***************************************************************************)
JobsConfigs ==
    {MkConfig(url, "tok", <<E_light.entity_id>>, TRUE, TRUE, Name_PC,
              <<"disk_free_gb", "uptime_seconds">>, 5) : url \in {"ha", ""}}

JobsSide ==
    /\ InitEngine
    /\ config \in JobsConfigs
    /\ hubNotifications = << <<"n1">> >>
    /\ hubStates = <<E_cam, E_light>>
    /\ metricSource = [k \in Range(MetricKeys) |-> "v1"]

NextJobs ==
    \/ TrayIconInit
    \/ PanelRefreshTick
    \/ NotificationTimerTick
    \/ PendingCheckFire
    \/ AgentTimerTick
    \/ PendingPublishFire
    \/ SaveConfiguration(JobsConfigs)
    \/ SaveRejected(JobsConfigs)

\* The last run of any job recorded.
InitJobs == JobsSide /\ watch = {"refresh", "poll", "publish", "last"}

SpecJobs == InitJobs /\ [][NextJobs]_vars

NoRepeat(seq) == \A i, j \in 1..Len(seq) : seq[i] = seq[j] => i = j

\* The cache keys of the resources the listed entities ask the hub for.
UsedKeys(base_url, states) == {ApiKey(base_url, n) : n \in UsedNames(states)}

JobWithoutCredentialsDoesNotRun ==
    /\ lastRefresh.trigger = "timer" /\ lastRefresh.outcome = "nocreds" =>
          /\ lastRefresh.fetches = <<>>
          /\ ~lastRefresh.published
          /\ panel_view = lastRefresh.viewBefore
          /\ icon_cache = lastRefresh.cacheBefore
    /\ lastPoll.outcome = "skipped" /\ ~lastPoll.creds =>
          lastPoll.alerts = <<>> /\ lastPoll.after = lastPoll.K
    /\ lastPublish.outcome = "skipped" /\ ~lastPublish.creds =>
          lastPublish.pushes = <<>> /\ agent_last_payloads = lastPublish.before

\* C18 : without the URL or the token no job makes a gateway call; the
\* notification poll and the metric publish change nothing and emit
\* nothing; the entity refresh empties the stored states, publishes the
\* configured entities under their ids with local icons and adds none but
\* local entries to the icon cache.
WithoutCredentialsOnlyRefreshRuns ==
    /\ lastRefresh.outcome = "nocreds" =>
          /\ lastRefresh.fetches = <<>>
          /\ lastRefresh.published
          /\ panel_view = FallbackView(lastRefresh.entities)
          /\ entity_states = EmptyMap
          /\ CacheKept(lastRefresh.cacheBefore, icon_cache)
          /\ \A k \in DOMAIN icon_cache \ DOMAIN lastRefresh.cacheBefore :
                k[1] = "resource"
    /\ lastPoll.outcome = "skipped" /\ ~lastPoll.creds =>
          lastPoll.alerts = <<>> /\ lastPoll.after = lastPoll.K
    /\ lastPublish.outcome = "skipped" /\ ~lastPublish.creds =>
          lastPublish.pushes = <<>> /\ agent_last_payloads = lastPublish.before

\* The refresh timer fired without the URL after the hub's entities had
\* been published : the view became the configured lamp under its id.
WithoutCredentialsOnlyRefreshRunsWitness ==
    /\ lastRefresh.trigger = "timer"
    /\ lastRefresh.outcome = "nocreds"
    /\ Len(lastRefresh.viewBefore) = 2
    /\ panel_view = FallbackView(<<E_light.entity_id>>)

(***************************************************************************)
(* agent_metrics.py : slugify_agent_name, applied to one label.            *)
(***************************************************************************)
MaxLabel == 3

SlugAlphabet == {"L", "c", "1", " ", "!", "_"}

LivingRoomPC ==
    <<"L", "i", "v", "i", "n", "g", " ", "R", "o", "o", "m", " ", "P", "C",
      "!", "!">>

Labels == BoundedSeq(SlugAlphabet, MaxLabel) \cup {LivingRoomPC}

Probing(inputs) ==
    /\ InitFields
    /\ config = MkConfig("", "", <<>>, FALSE, FALSE, <<>>, <<>>, 5)
    /\ hubNotifications = <<>>
    /\ hubStates = <<>>
    /\ metricSource = [k \in Range(MetricKeys) |-> "none"]
    /\ watch = {}
    /\ probe \in {[NoProbe EXCEPT !.input = i] : i \in inputs}

\* A call of a function of its arguments alone touches nothing else.
ProbeOnly ==
    UNCHANGED <<alive, started, config, known_notifications, icon_cache,
                entity_states, agent_last_payloads, notification_timer,
                agent_timer, panel_refresh_timer, pending, panel_view, menu,
                hubVars, histVars, madeUnder, stack, due, watch>>

SlugifyAgentName ==
    /\ probe.fn = "none"
    /\ probe' = [probe EXCEPT !.fn = "slugify_agent_name",
                              !.output = slugify_agent_name(probe.input)]
    /\ ProbeOnly

InitSlug == Probing(Labels)

SpecSlug == InitSlug /\ [][SlugifyAgentName]_vars

\* The words of a label : its maximal runs of letters and digits, in lower
\* case.
RECURSIVE Words(_, _, _)
Words(s, word, words) ==
    IF s = <<>> THEN IF word = <<>> THEN words ELSE Append(words, word)
    ELSE IF SlugChar(LowerChar(Head(s)))
    THEN Words(Tail(s), Append(word, LowerChar(Head(s))), words)
    ELSE Words(Tail(s), <<>>, IF word = <<>> THEN words ELSE Append(words, word))

RECURSIVE Joined(_)
Joined(words) ==
    IF Len(words) = 1 THEN words[1]
    ELSE words[1] \o <<"_">> \o Joined(Tail(words))

DefaultSlug == <<"a", "g", "e", "n", "t">>

\* The label in lower case, its runs of other characters made one
\* underscore each, without the underscores at its ends; the default token
\* when nothing is left.
CollapsedLabel(label) ==
    IF Words(label, <<>>, <<>>) = <<>> THEN DefaultSlug
    ELSE Joined(Words(label, <<>>, <<>>))

\* C19 as stated : the slug of every label is its collapsed label, the
\* default token when that is empty.
SlugIsCollapsedLabel ==
    probe.fn = "slugify_agent_name" => probe.output = CollapsedLabel(probe.input)

\* C19 : the slug of a label that is empty or all white space is empty; the
\* slug of every other label is its collapsed label, the default token when
\* that is empty.
SlugIsCollapsedLabelUnlessBlank ==
    probe.fn = "slugify_agent_name" =>
        probe.output = IF Strip(probe.input) = <<>> THEN <<>>
                       ELSE CollapsedLabel(probe.input)

\* "Living Room PC!!" gave living_room_pc.
SlugIsCollapsedLabelUnlessBlankWitness ==
    /\ probe.fn = "slugify_agent_name"
    /\ probe.input = LivingRoomPC
    /\ probe.output = <<"l", "i", "v", "i", "n", "g", "_", "r", "o", "o", "m",
                        "_", "p", "c">>

(***************************************************************************)
(* Entity refresh, what the hub listed recorded with each run.             *)
(***************************************************************************)
InitIcons == ViewSide /\ watch = {"refresh", "icons"}

SpecIcons == InitIcons /\ [][NextView]_vars

\* The one resource of the hub an entity's state asks for : its picture, or
\* else its icon name, or none.
Wanted(state) ==
    IF Strip(state.entity_picture) # <<>> THEN Strip(state.entity_picture)
    ELSE Strip(state.icon)

Listed(states) == {i \in 1..Len(states) : states[i].entity_id # <<>>}

\* The icon of the entity id after a run that listed states and left cache.
ResolvedIcon(id, states, base_url, cache) ==
    IF /\ id \in DOMAIN StateMap(states)
       /\ Wanted(StateMap(states)[id]) # <<>>
       /\ ~cache[ApiKey(base_url, Wanted(StateMap(states)[id]))].null
    THEN RemoteIcon(Wanted(StateMap(states)[id]))
    ELSE load_domain_icon(id)

\* C20 : a refresh that got the states fetches of each entity nothing but
\* the one resource it asks for, its picture or else its icon name; the
\* entity is published with that resource when it is usable and with the
\* local icon of its domain when it asks for nothing or the fetch or the
\* decoding failed.
IconResolutionOrder ==
    lastRefresh.outcome = "ok" =>
        /\ Range(lastRefresh.fetches)
             \subseteq {ApiKey(lastRefresh.base_url, Wanted(lastRefresh.states[i])) :
                           i \in Listed(lastRefresh.states)}
        /\ \A i \in 1..Len(panel_view) :
              panel_view[i].icon
                = ResolvedIcon(panel_view[i].entity_id, lastRefresh.states,
                               lastRefresh.base_url, icon_cache)

\* The camera's picture was fetched and failed : the camera is published
\* with the generic local icon, and its icon name was not fetched.
IconResolutionOrderWitness ==
    /\ lastRefresh.outcome = "ok"
    /\ ApiKey("ha", <<"/pic">>) \in Range(lastRefresh.fetches)
    /\ icon_cache[ApiKey("ha", <<"/pic">>)].null
    /\ ApiKey("ha", <<"mdi:cctv">>) \notin DOMAIN icon_cache
    /\ \E i \in 1..Len(panel_view) :
          panel_view[i]
            = PanelEntity(E_cam.entity_id, E_cam.entity_id,
                          [null |-> FALSE,
                           src |-> <<"file", <<"entity-generic.svg">>>>])

(***************************************************************************)
(* The interval of the panel refresh timer, for configurations read from   *)
(* the file with any number of minutes and configurations saved by the     *)
(* dialog.                                                                 *)
(***************************************************************************)
PanelMinutes == {-1, 0, 1, 5, MaxPanelMinutes, MaxPanelMinutes + 1}

IntervalConfigs ==
    {MkConfig("ha", "tok", <<E_light.entity_id>>, FALSE, FALSE, <<>>, <<>>, m) :
        m \in PanelMinutes}

IntervalSide ==
    /\ InitEngine
    /\ config \in IntervalConfigs
    /\ hubNotifications = <<>>
    /\ hubStates \in HubStateLists
    /\ metricSource = [k \in Range(MetricKeys) |-> "v1"]

NextInterval ==
    \/ TrayIconInit
    \/ PanelRefreshTick
    \/ SaveConfiguration(IntervalConfigs)
    \/ SaveRejected(IntervalConfigs)
    \/ HubStatesChange

InitInterval == IntervalSide /\ watch = {}

SpecInterval == InitInterval /\ [][NextInterval]_vars

\* The number of minutes the claim gives for the configured value v.
ClampedMinutes(v) ==
    IF v = 0 THEN 5
    ELSE IF v < 1 THEN 1
    ELSE IF v > MaxPanelMinutes THEN MaxPanelMinutes
    ELSE v

\* C21 : whenever the panel refresh timer is started, its interval is the
\* configured number of minutes brought into [1, 1440] : 1 for a value below
\* 1, 1440 for a value above 1440, the default 5 for a value of zero.
AppliedIntervalIsClamped ==
    [][panel_refresh_timer' # panel_refresh_timer
         => panel_refresh_timer' = ClampedMinutes(config'.panel_refresh_minutes)]_vars

\* C22 : while agent publishing is turned off or the device label is blank,
\* the running engine has its metric timer stopped and its
\* Last-Published-Value Map empty, and a publish run, the queued one
\* included, issues no push.
NoPublishingWhileDisabled ==
    (Running /\ ~PublishingEnabled(config))
        => /\ ~agent_timer
           /\ agent_last_payloads = EmptyMap
           /\ lastPublish.pushes = <<>>

\* Publishing was turned off while a run was queued, and the queued run
\* has run.
NoPublishingWhileDisabledWitness ==
    /\ Running /\ ~config.use_agent
    /\ lastPublish.outcome = "skipped"
    /\ ~agent_timer
    /\ agent_last_payloads = EmptyMap

\* The destinations of the metrics the last publish run collected.
CollectedIds ==
    {lastPublish.collected[i].entity_id : i \in 1..Len(lastPublish.collected)}

\* The entry of destination id is the same in the maps before and after.
SameEntry(before, after, id) ==
    /\ id \in DOMAIN before <=> id \in DOMAIN after
    /\ id \in DOMAIN before => before[id] = after[id]

\* C23 : a publish run leaves the Last-Published-Value Map entry of every
\* destination whose metric it did not collect as it was, the run that
\* collected nothing included.
AbsentMetricKeepsEntry ==
    lastPublish.outcome \in {"ran", "skipped"} =>
        \A id \in (DOMAIN lastPublish.before \cup DOMAIN agent_last_payloads)
                     \ CollectedIds :
            SameEntry(lastPublish.before, agent_last_payloads, id)

\* A run that pushed one metric while another, published before, could not
\* be collected.
AbsentMetricKeepsEntryWitness ==
    /\ lastPublish.outcome = "ran"
    /\ lastPublish.pushes # <<>>
    /\ DOMAIN lastPublish.before \ CollectedIds # {}

\* A run that could collect nothing, with entries in the map.
NothingCollectedKeepsMap ==
    /\ lastPublish.outcome = "skipped"
    /\ PublishingEnabled(config) /\ HasCredentials(config)
    /\ lastPublish.before # EmptyMap
    /\ agent_last_payloads = lastPublish.before

\* C24 : while the notification preference is disabled, the running engine
\* has its notification timer stopped and its Known set empty, and a poll,
\* the one queued before the disabling included, surfaces no alert.
DisabledPreferenceKeepsKnownEmpty ==
    (Running /\ ~config.receive_admin_notifications)
        => /\ ~notification_timer
           /\ known_notifications = {}
           /\ lastPoll.outcome = "skipped" => lastPoll.alerts = <<>>

\* The signature computed for metric key under the label name from the
\* reading tag, and its destination.
SignatureOf(name, key, tag) ==
    MetricSignature(Strip(name), key, MetricValue(key, tag))

DestinationOf(name, key) ==
    SensorEntityId(slugify_agent_name(Strip(name)), key)

\* The entry of the destination of key is the signature of tag.
Delivered(name, key, tag) ==
    /\ DestinationOf(name, key) \in DOMAIN agent_last_payloads
    /\ agent_last_payloads[DestinationOf(name, key)]
         = SignatureOf(name, key, tag)

\* Publishing is enabled under the label name with URL and token set, and
\* the metric key is selected and reads tag.
Computed(name, key, tag) ==
    /\ PublishingEnabled(config) /\ HasCredentials(config)
    /\ config.agent_name = name
    /\ key \in Range(config.agent_metrics)
    /\ metricSource[key] = tag

\* C25 : a signature computed while publishing is enabled, and differing
\* from the stored one, is pushed with success by some tick of the agent
\* timer and stored.  So, as long as it is not stored, the ticks that are to
\* push it go on : the process runs and the agent timer is active.
UndeliveredSignatureKeepsTicks ==
    \A name \in {Name_PC, Name_PCbang} :
      \A key \in Range(MetricKeys) :
        \A tag \in {"v1", "v2"} :
          (started /\ Computed(name, key, tag) /\ ~Delivered(name, key, tag))
              => (alive /\ agent_timer)

(***************************************************************************)
(* Entity refresh, each run recorded with the run before it, under two     *)
(* hubs.                                                                   *)
(***************************************************************************)
TwiceConfigs ==
    {MkConfig(url, "tok", ents, FALSE, FALSE, <<>>, <<>>, 5) :
        url \in {"ha", "hb"}, ents \in {<<>>, <<E_light.entity_id>>}}

TwiceSide ==
    /\ InitEngine
    /\ config \in TwiceConfigs
    /\ hubNotifications = <<>>
    /\ hubStates \in {<<>>, <<E_light>>}
    /\ metricSource = [k \in Range(MetricKeys) |-> "v1"]

TwiceStatesChange ==
    /\ alive
    /\ \E l \in {<<>>, <<E_light>>} : l # hubStates /\ hubStates' = l
    /\ UNCHANGED <<engineVars, notifHist, hubNotifications, metricSource>>

NextTwice ==
    \/ TrayIconInit
    \/ PanelRefreshTick
    \/ SaveConfiguration(TwiceConfigs)
    \/ SaveRejected(TwiceConfigs)
    \/ TwiceStatesChange

InitTwice == TwiceSide /\ watch = {"refresh", "icons", "twice"}

SpecTwice == InitTwice /\ [][NextTwice]_vars

\* The last two refresh runs succeeded and got the same list from the hub.
SameListTwice ==
    /\ lastRefresh.outcome = "ok"
    /\ lastRefresh.previous.outcome = "ok"
    /\ lastRefresh.states = lastRefresh.previous.states

\* C26 as stated : two consecutive successful refresh runs that get the same
\* list each publish the view, and the two views are equal.
SameListSameView ==
    SameListTwice => lastRefresh.published /\ panel_view = lastRefresh.viewBefore

\* C26 : two consecutive successful refresh runs that get the same list,
\* the second started by the refresh timer under the base URL and the
\* entities of the first, each publish the view, and the two views are
\* equal.
SameListSameViewOnTimer ==
    (/\ SameListTwice
     /\ lastRefresh.trigger = "timer"
     /\ lastRefresh.base_url = lastRefresh.previous.base_url
     /\ lastRefresh.entities = lastRefresh.previous.entities)
        => lastRefresh.published /\ panel_view = lastRefresh.viewBefore

\* Two timer runs listed the lamp; the fetch of its icon failed in the
\* first, and the second shows the local icon again.
SameListSameViewOnTimerWitness ==
    /\ SameListTwice
    /\ lastRefresh.trigger = "timer"
    /\ lastRefresh.base_url = lastRefresh.previous.base_url
    /\ lastRefresh.states = <<E_light>>
    /\ lastRefresh.fetches = <<>>
    /\ icon_cache[ApiKey(lastRefresh.base_url, <<"mdi:lamp">>)].null
    /\ lastRefresh.published
    /\ Len(panel_view) = 1
    /\ panel_view[1].icon = load_domain_icon(E_light.entity_id)

(***************************************************************************)
(* tray.py : the payload signature, of two payloads for one destination    *)
(* published one after the other.                                          *)
(***************************************************************************)
MaxAttrs == 2

SignatureKeys == {"icon", "source", "unit_of_measurement"}

\* Attribute dicts as their items in insertion order : no key twice.
AttributeDicts ==
    {a \in BoundedSeq({Attr(k, v) : k \in SignatureKeys, v \in {"a", "b"}},
                      MaxAttrs) :
        \A i, j \in 1..Len(a) : a[i][1] = a[j][1] => i = j}

Payloads ==
    [state : {<<"10.5">>, <<"11.0">>}, attributes : AttributeDicts]

ProbeDestination == SensorEntityId(<<"p", "c">>, "disk_free_gb")

\* The second of the two steps, from the map the first one left.
SecondStep(first, sig) ==
    PublishStep([payloads |-> first.payloads, pushes |-> <<>>],
                "disk_free_gb", ProbeDestination, sig, TRUE)

\* Lines 287-295 for the payload p, then for the payload q.
PublishedTwice(p, q) ==
    [first |-> payload_signature(p.state, p.attributes),
     second |-> payload_signature(q.state, q.attributes),
     pushed |-> SecondStep(PublishStep([payloads |-> EmptyMap, pushes |-> <<>>],
                                       "disk_free_gb", ProbeDestination,
                                       payload_signature(p.state, p.attributes),
                                       TRUE),
                           payload_signature(q.state, q.attributes)).pushes # <<>>]

PublishTwice ==
    /\ probe.fn = "none"
    /\ probe' = [probe EXCEPT !.fn = "payload_signature",
                              !.output = PublishedTwice(probe.input[1],
                                                        probe.input[2])]
    /\ ProbeOnly

InitSignature == Probing(Payloads \X Payloads)

SpecSignature == InitSignature /\ [][PublishTwice]_vars

\* The two payloads have the same value string and the same attribute
\* pairs.
SamePayload(p, q) ==
    p.state = q.state /\ Range(p.attributes) = Range(q.attributes)

\* C27 : two payloads have equal signatures exactly when they have the same
\* value string and the same attribute pairs, in whatever order these were
\* inserted; the second is pushed exactly when the signatures differ.
SignatureIgnoresInsertionOrder ==
    probe.fn = "payload_signature" =>
        /\ (probe.output.first = probe.output.second)
             <=> SamePayload(probe.input[1], probe.input[2])
        /\ probe.output.pushed
             <=> ~SamePayload(probe.input[1], probe.input[2])

\* The same two attribute pairs inserted in the two orders : the second
\* payload is not pushed.
SignatureIgnoresInsertionOrderWitness ==
    /\ probe.fn = "payload_signature"
    /\ Len(probe.input[1].attributes) = 2
    /\ probe.input[1].attributes # probe.input[2].attributes
    /\ SamePayload(probe.input[1], probe.input[2])
    /\ ~probe.output.pushed

(***************************************************************************)
(* tray.py 162-172 : _toggle_entity, and what each slot leaves alone.      *)
(***************************************************************************)
\* What the user is told : nothing when the call raised past the handler.
ToggleMessage(cfg, outcome) ==
    IF ~HasCredentials(cfg) THEN "warning"
    ELSE IF outcome = "ok" THEN "information"
    ELSE IF outcome = "error" THEN "warning"
    ELSE "none"

\* _toggle_entity : _create_client (lines 164-168), client.toggle_entity
\* (lines 169-171), whose requests.post is not wrapped (ha_client.py 72-85).
toggle_entity(e, outcome) ==
    IF HasCredentials(e.config) /\ outcome = "raise"
    THEN [e EXCEPT !.alive = FALSE]
    ELSE e

\* The entities a menu or panel action can toggle.
ToggleIds == Range(config.entities) \cup {E_light.entity_id}

ToggleOutcomes(cfg) == IF HasCredentials(cfg) THEN CallOutcomes ELSE {"ok"}

\* The user triggers the toggle action of an entity.
ToggleEntity ==
    /\ Running
    /\ \E id \in ToggleIds, o \in ToggleOutcomes(config) :
          /\ Commit(toggle_entity(Engine, o))
          /\ probe' = [fn |-> "toggle_entity", input |-> id,
                       output |-> [calls |-> IF HasCredentials(config)
                                             THEN 1 ELSE 0,
                                   message |-> ToggleMessage(config, o)]]
    /\ ForgetPoll /\ ForgetRefresh /\ ForgetPublish
    /\ UNCHANGED <<started, hubVars, stack, due, fetchCount, notifHist,
                   republish, lastChange, watch>>

FrameConfigs ==
    {MkConfig("ha", t, <<E_light.entity_id>>, n, a, Name_PC,
              <<"disk_free_gb">>, 5) :
        t \in {"tok", ""}, n \in BOOLEAN, a \in BOOLEAN}

FrameSide ==
    /\ InitEngine
    /\ config \in FrameConfigs
    /\ hubNotifications \in FrameNotificationLists
    /\ hubStates = <<>>
    /\ metricSource = [k \in Range(MetricKeys) |-> "v1"]

NextFrame ==
    \/ TrayIconInit
    \/ PanelRefreshTick
    \/ NotificationTimerTick
    \/ PendingCheckFire
    \/ AgentTimerTick
    \/ PendingPublishFire
    \/ ToggleEntity
    \/ SaveConfiguration(FrameConfigs)
    \/ SaveRejected(FrameConfigs)
    \/ FrameNotificationsChange

\* Every slot of the tray, no history recorded.
InitFrame == FrameSide /\ watch = {}

SpecFrame == InitFrame /\ [][NextFrame]_vars

\* An entity refresh, a metric publish or a toggle request.
OtherSlot ==
    \/ PanelRefreshTick
    \/ AgentTimerTick
    \/ PendingPublishFire
    \/ ToggleEntity

\* A configuration change that keeps the notification preference enabled.
ChangeKeepsPreference ==
    /\ config.receive_admin_notifications
    /\ config'.receive_admin_notifications
    /\ SaveConfiguration(FrameConfigs)

\* C28 as stated : an entity refresh, a metric publish, a toggle request,
\* or a configuration change that keeps the notification preference
\* enabled leaves the Known set unchanged.
KnownChangedOnlyByPoll ==
    [][known_notifications' # known_notifications
          => ~(OtherSlot \/ ChangeKeepsPreference)]_vars

\* What the Known set is after the handler of a configuration change that
\* keeps the preference enabled : the ids the hub lists then, or nothing
\* when URL or token is missing or the seeding call fails; when an
\* exception escaped the handler, the set it was (the entity refresh
\* raised) or nothing (the seeding call raised).
Reseeded ==
    IF ~alive'
    THEN known_notifications' \in {known_notifications, {}}
    ELSE IF ~HasCredentials(config')
    THEN known_notifications' = {}
    ELSE known_notifications' \in {{}, NotificationIds(hubNotifications)}

\* C28 (amended) : an entity refresh, a metric publish and a toggle request
\* leave the Known set unchanged; a configuration change that keeps the
\* notification preference enabled seeds the Known set again.
KnownChangedByPollAndChange ==
    [][/\ known_notifications' # known_notifications => ~OtherSlot
       /\ ~Reseeded => ~ChangeKeepsPreference]_vars

\* A toggle request was made while a notification was known, and the
\* handler of a configuration change has queued a poll.
KnownChangedByPollAndChangeWitness ==
    /\ probe.fn = "toggle_entity"
    /\ known_notifications = {<<"n1">>}
    /\ config.receive_admin_notifications
    /\ hubNotifications = <<<<"n1">>, <<"n2">>>>

(***************************************************************************)
(* Configured entities the hub does not report.                            *)
(***************************************************************************)
\* The ids the last refresh run got from the hub : none when the call
\* failed or was not made.
Reported(r) ==
    IF r.outcome = "ok" THEN DOMAIN StateMap(r.states) ELSE {}

\* The entry x of the menu or of the panel shows the id as its label, with
\* the local icon of the id's domain.
ShownLocally(x, label) ==
    /\ label = x.entity_id
    /\ x.icon = load_domain_icon(x.entity_id)

\* C29 : after a refresh run, a configured entity the hub did not report
\* (unknown id, failed call, missing URL or token) is shown, in the menu
\* and in the panel, with its id as label and the local icon of its domain,
\* and every remote fetch of the run asked for the resource of a reported
\* entity.
UnreportedEntityShownLocally ==
    lastRefresh.published =>
        /\ \A i \in 1..Len(menu) :
              menu[i].kind = "entity"
                /\ menu[i].entity_id \notin Reported(lastRefresh)
              => ShownLocally(menu[i], menu[i].text)
        /\ \A i \in 1..Len(panel_view) :
              panel_view[i].entity_id \notin Reported(lastRefresh)
              => ShownLocally(panel_view[i], panel_view[i].friendly_name)
        /\ Range(lastRefresh.fetches)
             \subseteq {ApiKey(lastRefresh.base_url, Wanted(lastRefresh.states[i])) :
                           i \in {j \in Listed(lastRefresh.states) :
                                     lastRefresh.outcome = "ok"}}

\* The hub listed the camera and the lamp and their resources were
\* fetched; the configured zone, which the hub did not list, is in the menu
\* under its id with the generic local icon.
UnreportedEntityShownLocallyWitness ==
    /\ lastRefresh.outcome = "ok"
    /\ lastRefresh.states = <<E_cam, E_light>>
    /\ lastRefresh.fetches # <<>>
    /\ \E i \in 1..Len(menu) :
          /\ menu[i].kind = "entity"
          /\ menu[i].entity_id = E_zone.entity_id
          /\ menu[i].text = E_zone.entity_id
          /\ menu[i].icon = [null |-> FALSE,
                             src |-> <<"file", <<"entity-generic.svg">>>>]

\* The call for the states failed : the panel lists the configured lamp
\* under its id with its local icon.
UnreportedEntityInPanel ==
    /\ lastRefresh.outcome = "error"
    /\ \E i \in 1..Len(panel_view) :
          /\ panel_view[i].entity_id = E_light.entity_id
          /\ panel_view[i].friendly_name = E_light.entity_id
          /\ panel_view[i].icon = load_domain_icon(E_light.entity_id)

(***************************************************************************)
(* Notifications that appear while the preference is enabled.              *)
(***************************************************************************)
FreshConfigs ==
    {MkConfig("ha", "tok", <<E_light.entity_id>>, n, FALSE, <<>>, <<>>, m) :
        n \in BOOLEAN, m \in {5, 10}}

FreshSide ==
    /\ InitEngine
    /\ config \in FreshConfigs
    /\ hubNotifications \in FrameNotificationLists
    /\ hubStates = <<>>
    /\ metricSource = [k \in Range(MetricKeys) |-> "v1"]

NextFresh ==
    \/ TrayIconInit
    \/ PanelRefreshTick
    \/ NotificationTimerTick
    \/ PendingCheckFire
    \/ SaveConfiguration(FreshConfigs)
    \/ SaveRejected(FreshConfigs)
    \/ FrameNotificationsChange

\* Notification polling, what appeared since the seeding recorded.
InitFresh == FreshSide /\ watch = {"fresh"}

SpecFresh == InitFresh /\ [][NextFresh]_vars

\* C30 as stated : an id that appeared at the hub after the Known set was
\* seeded, with the preference enabled ever since, is surfaced by the first
\* successful poll that lists it, whatever configuration changes were
\* applied since it appeared.
AppearedIdIsSurfaced == notifHist.swallowed = {}

\* C30 (amended) : an id that appeared at the hub after the Known set was
\* seeded and after the last configuration change, with the preference
\* enabled ever since, is surfaced by the first successful poll that lists
\* it.
AppearedIdIsSurfacedUnlessReseeded == notifHist.swallowedSince = {}

\* n2 appeared after the seeding and a poll surfaced it, with n1 known.
AppearedIdIsSurfacedWitness ==
    /\ <<"n2">> \in notifHist.freshAlerted
    /\ known_notifications = {<<"n1">>, <<"n2">>}

(***************************************************************************)
(* Alerts of an id that every successful poll has listed.                  *)
(***************************************************************************)
\* Notification polling, the alerts of the listed ids recorded.
InitDup == KnownSide /\ watch = {"dup"}

SpecDup == InitDup /\ [][NextKnown]_vars

\* C31 : while the preference stays enabled, an id that was surfaced is
\* not surfaced again unless a successful poll in between did not list it.
NoDuplicateAlerts == notifHist.duplicated = {}

(***************************************************************************)
(* settings.py : the dialog edits the configuration object of the engine.  *)
(***************************************************************************)
\* _add_entities (settings.py 245-250) with the item id selected.
add_entities(cfg, id) ==
    IF id \in Range(cfg.entities) THEN cfg
    ELSE [cfg EXCEPT !.entities = Append(@, id)]

\* list.remove, the first occurrence.
RemoveFirst(ents, id) ==
    IF id \notin Range(ents) THEN ents
    ELSE SubSeq(ents, 1, (CHOOSE i \in 1..Len(ents) :
                             /\ ents[i] = id
                             /\ \A j \in 1..(i - 1) : ents[j] # id) - 1)
         \o SubSeq(ents, (CHOOSE i \in 1..Len(ents) :
                             /\ ents[i] = id
                             /\ \A j \in 1..(i - 1) : ents[j] # id) + 1,
                   Len(ents))

\* _remove_entities (settings.py 252-258) with the item id selected.
remove_entities(cfg, id) == [cfg EXCEPT !.entities = RemoveFirst(@, id)]

\* The entities the dialog offers.
AvailableIds == {E_light.entity_id, E_zone.entity_id}

\* What the slots of the engine and of the dialog leave alone when only the
\* configuration object is written.
UnchangedButConfig ==
    UNCHANGED <<alive, started, known_notifications, icon_cache,
                entity_states, agent_last_payloads, notification_timer,
                agent_timer, panel_refresh_timer, pending, panel_view, menu,
                hubVars, sideVars, histVars, madeUnder, watch>>

\* The user presses Add in the dialog (and later cancels it).
AddEntities ==
    /\ Running
    /\ \E id \in AvailableIds :
          /\ id \notin Range(config.entities)
          /\ config' = add_entities(config, id)
    /\ UnchangedButConfig

\* The user presses Remove in the dialog (and later cancels it).
RemoveEntities ==
    /\ Running
    /\ \E id \in Range(config.entities) : config' = remove_entities(config, id)
    /\ UnchangedButConfig

DialogConfigs ==
    {MkConfig(url, "tok", ents, FALSE, FALSE, <<>>, <<>>, 5) :
        url \in {"ha", "hb"},
        ents \in {<<>>, <<E_light.entity_id>>,
                  <<E_zone.entity_id, E_light.entity_id>>}}

DialogSide ==
    /\ InitEngine
    /\ config \in DialogConfigs
    /\ hubNotifications = <<>>
    /\ hubStates \in {<<>>, <<E_light>>}
    /\ metricSource = [k \in Range(MetricKeys) |-> "v1"]

NextDialog ==
    \/ TrayIconInit
    \/ PanelRefreshTick
    \/ SaveConfiguration(DialogConfigs)
    \/ SaveRejected(DialogConfigs)
    \/ AddEntities
    \/ RemoveEntities
    \/ TwiceStatesChange

\* Entity refresh and the settings dialog, no history recorded.
InitDialog == DialogSide /\ watch = {}

SpecDialog == InitDialog /\ [][NextDialog]_vars

\* C32 : the configuration the jobs read changes only when a save succeeds
\* and configuration_changed is delivered.
ConfigurationChangesOnlyOnSave ==
    [][config' # config => SaveConfiguration(DialogConfigs)]_vars

\* The engine reads a base URL while the cache holds an entry made under
\* another one : the configuration changed and the cache was not cleared.
UnclearedCache ==
    /\ Running
    /\ \E k \in DOMAIN icon_cache : k[1] = "api" /\ k[2] # config.base_url

(***************************************************************************)
(* The Last-Published-Value Map and the pushes that succeeded.             *)
(***************************************************************************)
\* C33 : in every state the Last-Published-Value Map holds, for each
\* destination pushed with success since the map was last cleared, the
\* signature of the last of these pushes, and no other entry.
MapIsLastSuccessfulPushes == agent_last_payloads = republish.pushedSince

\* A run replaced the entry of a destination by the signature it pushed,
\* and a failed push of the same run left another entry as it was.
MapIsLastSuccessfulPushesWitness ==
    /\ lastPublish.outcome = "ran"
    /\ \E i, j \in 1..Len(lastPublish.pushes) :
          /\ lastPublish.pushes[i].ok
          /\ lastPublish.pushes[i].entity_id \in DOMAIN lastPublish.before
          /\ lastPublish.before[lastPublish.pushes[i].entity_id]
               # lastPublish.pushes[i].signature
          /\ agent_last_payloads[lastPublish.pushes[i].entity_id]
               = lastPublish.pushes[i].signature
          /\ ~lastPublish.pushes[j].ok
          /\ lastPublish.pushes[j].entity_id \in DOMAIN agent_last_payloads

(***************************************************************************)
(* What a toggle request does and what it leaves alone.                    *)
(***************************************************************************)
\* The toggle request of this step made the calls and surfaced the message
\* the claim describes, and touched none of the engine's structures.
ToggleAsDescribed ==
    /\ probe'.output.calls = IF HasCredentials(config) THEN 1 ELSE 0
    /\ probe'.output.message \in {"information", "warning"}
    /\ UNCHANGED <<known_notifications, agent_last_payloads, icon_cache,
                   panel_view, notification_timer, agent_timer,
                   panel_refresh_timer>>

\* C34 : a toggle request makes one toggle call when URL and token are set
\* and none otherwise, surfaces exactly one status message, and leaves the
\* Known set, the payload map, the icon cache, the published view and the
\* timers unchanged.
ToggleCallsOnceAndReports == [][ToggleEntity => ToggleAsDescribed]_vars

\* The same of the toggle requests that return to the event loop.
ReturningToggleCallsOnceAndReports ==
    [][ToggleEntity /\ alive' => ToggleAsDescribed]_vars


(***************************************************************************)
(* The published view (tray.py 72-120, 142).                               *)
(***************************************************************************)
\* What list_entity_states returns here : nothing, only a state without
\* entity_id, an id listed twice, a state without entity_id among others.
ListStateLists ==
    {<<>>, <<E_noid>>, <<E_light, E_zone, E_light>>, <<E_noid, E_zone>>}

ListStatesChange ==
    /\ alive
    /\ \E l \in ListStateLists : l # hubStates /\ hubStates' = l
    /\ UNCHANGED <<engineVars, notifHist, hubNotifications, metricSource>>

ListSide ==
    /\ InitEngine
    /\ config \in ViewConfigs
    /\ hubNotifications = <<>>
    /\ hubStates \in ListStateLists
    /\ metricSource = [k \in Range(MetricKeys) |-> "v1"]

NextList ==
    \/ TrayIconInit
    \/ PanelRefreshTick
    \/ SaveConfiguration(ViewConfigs)
    \/ SaveRejected(ViewConfigs)
    \/ ListStatesChange

InitList == ListSide /\ watch = {"refresh", "icons"}

SpecList == InitList /\ [][NextList]_vars

ViewIds == [i \in 1..Len(panel_view) |-> panel_view[i].entity_id]

\* The non-empty ids of the states, each at its first position.
IdsListedOnce(states) ==
    LET ids == [i \in 1..Len(states) |-> states[i].entity_id]
        first(i) == ids[i] # <<>> /\ \A j \in 1..(i - 1) : ids[j] # ids[i]
        F[i \in 0..Len(ids)] ==
            IF i = 0 THEN <<>>
            ELSE IF first(i) THEN Append(F[i - 1], ids[i]) ELSE F[i - 1]
    IN  F[Len(ids)]

\* C35 as stated : the view a refresh run publishes lists the hub's entities
\* with a non-empty id, each once and in the returned order, when the fetch
\* succeeded with at least one entity, and the configured entities in
\* configuration order otherwise.
ViewListsHubOrConfigured ==
    lastRefresh.published =>
        ViewIds = IF lastRefresh.outcome = "ok" /\ lastRefresh.states # <<>>
                  THEN IdsListedOnce(lastRefresh.states)
                  ELSE lastRefresh.entities

\* C35 : the view a refresh run publishes lists the hub's entities with a
\* non-empty id, each once and in the returned order, when the fetch
\* succeeded with at least one such entity, and the configured entities in
\* configuration order otherwise.
ViewListsHubWithIdsOrConfigured ==
    lastRefresh.published =>
        ViewIds = IF /\ lastRefresh.outcome = "ok"
                     /\ IdsListedOnce(lastRefresh.states) # <<>>
                  THEN IdsListedOnce(lastRefresh.states)
                  ELSE lastRefresh.entities

\* The hub returned only a state without entity_id, and the view lists the
\* configured entities.
ViewListsHubWithIdsOrConfiguredWitness ==
    /\ lastRefresh.published
    /\ lastRefresh.outcome = "ok"
    /\ lastRefresh.states = <<E_noid>>
    /\ lastRefresh.entities # <<>>
    /\ ViewIds = lastRefresh.entities


(***************************************************************************)
(* The context menu (tray.py 65-70, 122-140).                              *)
(***************************************************************************)
IsEntityEntry(x) == x.kind \in {"entity", "placeholder"}

KindCount(kind) == Cardinality({i \in 1..Len(menu) : menu[i].kind = kind})

\* One action per entity of ents in that order, or the placeholder, all
\* before the Settings action; Settings and Quit once each.
MenuShows(ents) ==
    LET shown == SelectSeq(menu, IsEntityEntry)
    IN  /\ IF ents = <<>> THEN shown = <<Placeholder>>
           ELSE /\ Len(shown) = Len(ents)
                /\ \A i \in 1..Len(ents) :
                      shown[i].kind = "entity" /\ shown[i].entity_id = ents[i]
        /\ KindCount("settings") = 1
        /\ KindCount("quit") = 1
        /\ \A i, j \in 1..Len(menu) :
              IsEntityEntry(menu[i]) /\ menu[j].kind = "settings" => i < j

\* C36 : after every refresh run the menu holds one action per configured
\* entity in configuration order, or the placeholder, before the Settings
\* action, and Settings and Quit once each.
MenuShowsConfiguredEntities ==
    lastRefresh.trigger # "none" => MenuShows(lastRefresh.entities)

\* The same of the refresh runs that return to the event loop.
ReturnedRefreshShowsConfiguredEntities ==
    lastRefresh.trigger # "none" /\ lastRefresh.outcome # "raise"
        => MenuShows(lastRefresh.entities)


(***************************************************************************)
(* config.py : the configuration file.                                     *)
(***************************************************************************)
\* Lines 90-93 and 96-102 : base64 of a non-empty value, and back; what is
\* not base64 decodes to the empty string.
_encode_value(value) == IF value = <<>> THEN <<>> ELSE <<"b64">> \o value

_decode_value(value) ==
    IF value = <<>> THEN <<>>
    ELSE IF Head(value) = "b64" THEN Tail(value) ELSE <<>>

\* Lines 28-40 : the dictionary written to the file.
to_dict(cfg) ==
    [base_url |-> cfg.base_url, api_token |-> cfg.api_token,
     entities |-> cfg.entities,
     proxy |-> [host |-> _encode_value(cfg.proxy_host),
                port |-> _encode_value(cfg.proxy_port),
                username |-> _encode_value(cfg.proxy_username),
                password |-> _encode_value(cfg.proxy_password)]]

\* Lines 16-26 : the fields of WidgetConfig.
WidgetConfig(url, token, ents, host, port, username, password) ==
    [base_url |-> url, api_token |-> token, entities |-> ents,
     proxy_host |-> host, proxy_port |-> port, proxy_username |-> username,
     proxy_password |-> password]

\* list(dict.fromkeys(ids)) : first occurrences, in order.
RECURSIVE FromKeys(_)
FromKeys(ids) ==
    IF ids = <<>> THEN <<>>
    ELSE LET rest == FromKeys(SubSeq(ids, 1, Len(ids) - 1))
             last == ids[Len(ids)]
         IN  IF last \in Range(rest) THEN rest ELSE Append(rest, last)

\* Lines 42-55.
from_dict(data) ==
    WidgetConfig(data.base_url, data.api_token, FromKeys(data.entities),
                 _decode_value(data.proxy.host), _decode_value(data.proxy.port),
                 _decode_value(data.proxy.username),
                 _decode_value(data.proxy.password))

\* Lines 81-87 and 68-78 : json.dump of to_dict, json.load and from_dict.
save_config(cfg) == to_dict(cfg)

load_config(file) == from_dict(file)

\* The configuration object SettingsDialog._save hands to save_config
\* (settings.py 301-333) : the WidgetConfig fields and the attributes _save
\* assigns.
DialogConfig(url, ents, host, password, minutes, notif, theme) ==
    [base_url |-> url, api_token |-> "tok", entities |-> ents,
     proxy_host |-> host, proxy_port |-> IF host = <<>> THEN <<>> ELSE <<"8080">>,
     proxy_username |-> IF password = <<>> THEN <<>> ELSE <<"user">>,
     proxy_password |-> password,
     panel_refresh_minutes |-> minutes, receive_admin_notifications |-> notif,
     use_agent |-> notif, agent_name |-> IF notif THEN Name_PC ELSE <<>>,
     agent_metrics |-> IF notif THEN <<"disk_free_gb">> ELSE <<>>,
     tray_icon_theme |-> theme]

SavedEntityLists ==
    {<<>>, <<E_light.entity_id>>,
     <<E_zone.entity_id, E_light.entity_id, E_zone.entity_id>>}

SavedConfigs ==
    {DialogConfig(url, ents, host, password, minutes, notif, theme) :
        url \in {"", "ha"}, ents \in SavedEntityLists,
        host \in {<<>>, <<"px">>}, password \in {<<>>, <<"pw">>},
        minutes \in {1, 10}, notif \in BOOLEAN, theme \in {"auto", "dark"}}

\* The configuration is saved, and loaded as at the next start (main.py 18).
SaveAndLoad ==
    /\ probe.fn = "none"
    /\ probe' = [probe EXCEPT !.fn = "load_config",
                              !.output = load_config(save_config(probe.input))]
    /\ ProbeOnly

InitFile == Probing(SavedConfigs)

SpecFile == InitFile /\ [][SaveAndLoad]_vars

\* The settings TrayIcon reads.
EngineSettings ==
    {"base_url", "api_token", "entities", "proxy_host", "proxy_port",
     "proxy_username", "proxy_password", "panel_refresh_minutes",
     "receive_admin_notifications", "use_agent", "agent_name",
     "agent_metrics", "tray_icon_theme"}

FileSettings ==
    {"base_url", "api_token", "proxy_host", "proxy_port", "proxy_username",
     "proxy_password"}

\* C37 : the configuration loaded after a save equals the saved one in every
\* setting the engine reads, the entity list with later duplicates removed.
RoundTripKeepsSettings ==
    probe.fn = "load_config" =>
        \A name \in EngineSettings :
            /\ name \in DOMAIN probe.output
            /\ probe.output[name] = IF name = "entities"
                                    THEN FromKeys(probe.input.entities)
                                    ELSE probe.input[name]

\* The same of the settings to_dict writes.
RoundTripKeepsFileSettings ==
    probe.fn = "load_config" =>
        /\ \A name \in FileSettings : probe.output[name] = probe.input[name]
        /\ probe.output.entities = FromKeys(probe.input.entities)


(***************************************************************************)
(* scripts/create_release.py : suggest_version (276-293).                  *)
(* A version is the sequence of its characters.                            *)
(***************************************************************************)
MaxVersions == 3

DigitChars == <<"0", "1", "2", "3", "4", "5", "6", "7", "8", "9">>

DigitValue(c) == (CHOOSE i \in 1..10 : DigitChars[i] = c) - 1

\* int(part) of a string of digits.
RECURSIVE IntOf(_)
IntOf(part) ==
    IF part = <<>> THEN 0
    ELSE 10 * IntOf(SubSeq(part, 1, Len(part) - 1)) + DigitValue(part[Len(part)])

\* str(n), as the f-string formats a number.
RECURSIVE StrOf(_)
StrOf(n) ==
    IF n < 10 THEN <<DigitChars[n + 1]>>
    ELSE Append(StrOf(n \div 10), DigitChars[(n % 10) + 1])

\* version.split(".")
RECURSIVE SplitDots(_)
SplitDots(version) ==
    IF \A i \in 1..Len(version) : version[i] # "."
    THEN <<version>>
    ELSE LET d == CHOOSE i \in 1..Len(version) :
                     /\ version[i] = "."
                     /\ \A j \in 1..(i - 1) : version[j] # "."
         IN  <<SubSeq(version, 1, d - 1)>>
                 \o SplitDots(SubSeq(version, d + 1, Len(version)))

\* Lines 279-281 : parse.
ParseVersion(version) ==
    [i \in 1..Len(SplitDots(version)) |-> IntOf(SplitDots(version)[i])]

StartsWith(v, prefix) ==
    Len(v) >= Len(prefix) /\ SubSeq(v, 1, Len(prefix)) = prefix

\* f"{major}.{minor}." and f"{major}.{minor}.{candidate}"
VersionPrefix(major, minor) == StrOf(major) \o <<".">> \o StrOf(minor) \o <<".">>

VersionString(major, minor, candidate) ==
    VersionPrefix(major, minor) \o StrOf(candidate)

\* Lines 289-293 : the loop, entered with the candidate of the turn before;
\* turns counts the turns taken.
RECURSIVE NextFree(_, _, _, _, _)
NextFree(major, minor, candidate, existing, turns) ==
    IF VersionString(major, minor, candidate + 1) \notin existing
    THEN [version |-> VersionString(major, minor, candidate + 1),
          turns |-> turns + 1]
    ELSE NextFree(major, minor, candidate + 1, existing, turns + 1)

\* The next patch version is returned unchecked.
SuggestNextPatch(base_version, existing_versions) ==
    [version |-> VersionString(ParseVersion(base_version)[1],
                               ParseVersion(base_version)[2],
                               ParseVersion(base_version)[3] + 1),
     turns |-> 1]

\* Lines 276-293; existing_versions is the list of the release tags.
suggest_version(base_version, existing_versions) ==
    IF base_version \notin Range(existing_versions)
    THEN [version |-> base_version, turns |-> 0]
    ELSE NextFree(ParseVersion(base_version)[1], ParseVersion(base_version)[2],
                  ParseVersion(base_version)[3],
                  {v \in Range(existing_versions) :
                      StartsWith(v, VersionPrefix(ParseVersion(base_version)[1],
                                                  ParseVersion(base_version)[2]))},
                  0)

Version(major, minor, patch) == major \o <<".">> \o minor \o <<".">> \o patch

BaseVersions ==
    {Version(<<"1">>, <<"2">>, <<"3">>), Version(<<"1">>, <<"2">>, <<"9">>),
     Version(<<"1">>, <<"2">>, <<"0", "3">>),
     Version(<<"0", "1">>, <<"2">>, <<"3">>),
     Version(<<"1">>, <<"3">>, <<"4">>)}

\* Release tags : the base versions, their successors, a tag of another
\* minor version and a tag that is no version.
ReleaseTags ==
    BaseVersions
        \cup {Version(<<"1">>, <<"2">>, <<"4">>),
              Version(<<"1">>, <<"2">>, <<"1", "0">>),
              Version(<<"1">>, <<"2">>, <<"0", "4">>),
              <<"1", ".", "2", ".", "4", "-", "r", "c">>}

SuggestVersion ==
    /\ probe.fn = "none"
    /\ probe' = [probe EXCEPT !.fn = "suggest_version",
                              !.output = suggest_version(probe.input[1],
                                                         probe.input[2])]
    /\ ProbeOnly

InitRelease == Probing(BaseVersions \X BoundedSeq(ReleaseTags, MaxVersions))

SpecRelease == InitRelease /\ [][SuggestVersion]_vars

\* C38 : suggest_version ends after at most one turn of its loop per
\* existing version and one more; it returns the base version when that is
\* not an existing version, and otherwise major.minor.p with the smallest p
\* above the base patch that is not an existing version; the result is
\* never an existing version.
SuggestedVersionIsFree ==
    probe.fn = "suggest_version" =>
        LET base == probe.input[1]
            existing == Range(probe.input[2])
            v == ParseVersion(base)
            out == probe.output.version
        IN  /\ out \notin existing
            /\ probe.output.turns <= Cardinality(existing)
            /\ base \notin existing => out = base
            /\ base \in existing =>
                  \E p \in (v[3] + 1)..(v[3] + Cardinality(existing)) :
                      /\ out = VersionString(v[1], v[2], p)
                      /\ \A q \in (v[3] + 1)..(p - 1) :
                            VersionString(v[1], v[2], q) \in existing

\* 1.2.9 and 1.2.10 exist : 1.2.11 is suggested, after two turns.
SuggestedVersionIsFreeWitness ==
    /\ probe.fn = "suggest_version"
    /\ probe.input[1] = Version(<<"1">>, <<"2">>, <<"9">>)
    /\ probe.input[1] \in Range(probe.input[2])
    /\ probe.output.version = Version(<<"1">>, <<"2">>, <<"1", "1">>)
    /\ probe.output.turns = 2

====
